---- MODULE Spec2Model ----
(***************************************************************************)
(* A model of AutoPostGPT's WordPress publishing path:                     *)
(*   publisher.py  - the REST and XML-RPC adapters and create_publisher    *)
(*   autopost.py   - AutoPost.run / publish_to_wordpress                   *)
(* The remote WordPress site is the environment: its categories, its tags  *)
(* and the outcome of every request are chosen nondeterministically.       *)
(***************************************************************************)
EXTENDS Integers, Sequences, FiniteSets, TLC

VARIABLES
    urlIn,      \* the configured wordpress.url, a sequence of characters
    urlOrigin,  \* the origin (scheme, host and path of the site) urlIn denotes
    urlPc,      \* "new" before the REST adapter is constructed, "built" after
    base_url    \* WordPressRESTPublisher.base_url

urlVars == <<urlIn, urlOrigin, urlPc, base_url>>

VARIABLES
    runPc,      \* AutoPost.run: "start", then "batch" once the publisher is set up
    config,     \* the wordpress section of config.yaml
    factory,    \* what the call of create_publisher did and returned
    publisher,  \* the adapter in use (AutoPost.publisher), kind "none" for None
    restHits    \* the REST endpoints requested since create_publisher returned

runVars == <<runPc, config, factory, publisher, restHits>>

VARIABLES
    remoteCats, \* the ids of the categories that exist on the site
    remoteTags, \* the names of the tags that exist on the site
    lastCall    \* the publish_post call whose result the caller has not yet taken

siteVars == <<remoteCats, remoteTags, lastCall>>

VARIABLES
    forbidden_words, \* ArticleGenerator.forbidden_words, a list of strings
    titleCall,       \* the generate_titles call in progress, and its result
    articleCall,     \* the generate_and_save_article call in progress
    picsum           \* the image search call in progress (_search_picsum's locals)

genVars == <<forbidden_words, titleCall, articleCall, picsum>>

VARIABLES
    replaceCall, \* the _replace_image_placeholders call in progress
    searchCall,  \* the search_images call in progress
    batch,       \* the process_keywords call in progress (its locals and effects)
    rpcAdapter   \* the WordPressXMLRPCPublisher under construction or built

batchVars == <<replaceCall, searchCall, batch, rpcAdapter>>

vars == <<urlVars, runVars, siteVars, genVars, batchVars>>

----------------------------------------------------------------------------
(* Strings are sequences of one-character strings.                         *)

SCHEME_HTTP == <<"h", "t", "t", "p", ":", "/", "/">>

SCHEME_HTTPS == <<"h", "t", "t", "p", "s", ":", "/", "/">>

XMLRPC_SUFFIX == <<"/", "x", "m", "l", "r", "p", "c", ".", "p", "h", "p">>

\* str.startswith(prefix)
StartsWith(s, prefix) ==
    /\ Len(s) >= Len(prefix)
    /\ SubSeq(s, 1, Len(prefix)) = prefix

\* str.endswith(suffix)
EndsWith(s, suffix) ==
    /\ Len(s) >= Len(suffix)
    /\ SubSeq(s, Len(s) - Len(suffix) + 1, Len(s)) = suffix

\* s[:-n] for n > 0: everything but the last n characters, '' when len(s) <= n
DropLast(s, n) == SubSeq(s, 1, Len(s) - n)

\* str.rstrip(ch)
RECURSIVE RStrip(_, _)
RStrip(s, ch) ==
    IF Len(s) > 0 /\ s[Len(s)] = ch THEN RStrip(SubSeq(s, 1, Len(s) - 1), ch) ELSE s

\* the number of characters url[:-12] removes
REST_SUFFIX_CUT == 12

\* WordPressRESTPublisher.__init__: the computation of self.base_url
REST_base_url(url) ==
    LET u1 == IF EndsWith(url, XMLRPC_SUFFIX) THEN DropLast(url, REST_SUFFIX_CUT) ELSE url
        u2 == IF ~(StartsWith(u1, SCHEME_HTTP) \/ StartsWith(u1, SCHEME_HTTPS))
              THEN SCHEME_HTTPS \o u1
              ELSE u1
    IN  RStrip(u2, "/")

----------------------------------------------------------------------------
(* The configured URLs: [scheme] host[/path] [/]* [/xmlrpc.php] [/]*       *)

MaxSlashes == 2

Schemes == {<<>>, SCHEME_HTTP, SCHEME_HTTPS}

Hosts ==
    { <<"s", "i", "t", "e", ".", "c", "o", "m">>,
      <<"a", ".", "i", "o">>,
      <<"a", ".", "i", "o", "/", "w", "p">> }

RECURSIVE Slashes(_)
Slashes(n) == IF n = 0 THEN <<>> ELSE <<"/">> \o Slashes(n - 1)

\* a configured URL and the origin it denotes (https is the default scheme)
ConfiguredUrls ==
    { [url |-> sc \o h \o Slashes(pre) \o sfx \o Slashes(post),
       origin |-> (IF sc = <<>> THEN SCHEME_HTTPS ELSE sc) \o h] :
        sc \in Schemes, h \in Hosts, pre \in 0..1,
        sfx \in {<<>>, XMLRPC_SUFFIX}, post \in 0..MaxSlashes }

UrlInit ==
    /\ \E u \in ConfiguredUrls : urlIn = u.url /\ urlOrigin = u.origin
    /\ urlPc = "new"
    /\ base_url = <<>>

\* the URL of the other specifications, which do not look at it
UrlIdle ==
    /\ urlIn = SCHEME_HTTPS \o <<"a", ".", "i", "o">>
    /\ urlOrigin = urlIn
    /\ urlPc = "new"
    /\ base_url = <<>>

\* no call of the generator or of the orchestrator's article step is in progress
NoGenCall == [pc |-> "idle"]

\* no image substitution, image search, batch or XML-RPC adapter is in progress
BatchIdle ==
    /\ replaceCall = NoGenCall
    /\ searchCall = NoGenCall
    /\ batch = NoGenCall
    /\ rpcAdapter = NoGenCall

\* the generator of the specifications that do not look at it
GenIdle ==
    /\ forbidden_words = <<>>
    /\ titleCall = NoGenCall
    /\ articleCall = NoGenCall
    /\ picsum = NoGenCall
    /\ BatchIdle

\* WordPressRESTPublisher(url, ...)
RESTPublisherInit ==
    /\ urlPc = "new"
    /\ urlPc' = "built"
    /\ base_url' = REST_base_url(urlIn)
    /\ UNCHANGED <<urlIn, urlOrigin>>
    /\ UNCHANGED <<runVars, siteVars, genVars, batchVars>>

(* C4: for every configured URL the REST adapter's base_url is the site's
   absolute origin: it starts with a scheme, has no trailing slash and no
   '/xmlrpc.php' suffix, and loses no character of the host or path. *)
C4_BaseUrlIsOrigin ==
    urlPc = "built" =>
        /\ StartsWith(base_url, SCHEME_HTTP) \/ StartsWith(base_url, SCHEME_HTTPS)
        /\ ~EndsWith(base_url, <<"/">>)
        /\ ~EndsWith(base_url, XMLRPC_SUFFIX)
        /\ base_url = urlOrigin

----------------------------------------------------------------------------
(* The remote WordPress site.                                              *)

\* category ids 1..MaxCatId may exist on the site
MaxCatId == 3

CatIds == 1..MaxCatId

\* the built-in "uncategorized" category, filtered by id in both adapters
RESERVED_DEFAULT_ID == 1

\* names differ in case only for ids 2 and 3
CatName(id) ==
    CASE id = 1 -> "Uncategorized"
      [] id = 2 -> "News"
      [] id = 3 -> "news"
      [] OTHER  -> "Tech"

\* the category names a caller or the configuration gives; "" is no name
\* (None and '' are both falsy in `category or self.default_category`).
\* "Uncategorized" stands for '未分类', the constructor's and the factory's
\* default; "Misc" for '默认分类', publish_to_wordpress's default, which no
\* category of the site is named.
CategoryNames == {"", "Uncategorized", "News", "news", "Misc"}

TagNames == {"seo", "ai"}

TagId(name) == IF name = "seo" THEN 5 ELSE 6

\* the ids the site gives a new post
PostIds == {42}

\* Optional[int] None: falsy like 0, and no WordPress id is 0
None == 0

\* Optional[str] None
PyNone == <<"None">>

Digits == <<"0", "1", "2", "3", "4", "5", "6", "7", "8", "9">>

\* str(n) for n >= 0
RECURSIVE PyStr(_)
PyStr(n) == IF n < 10 THEN <<Digits[n + 1]>> ELSE PyStr(n \div 10) \o <<Digits[(n % 10) + 1]>>

\* int(s) for a string of decimal digits
RECURSIVE PyInt(_)
PyInt(s) ==
    IF Len(s) = 0 THEN 0
    ELSE 10 * PyInt(SubSeq(s, 1, Len(s) - 1))
         + (CHOOSE d \in 0..9 : Digits[d + 1] = s[Len(s)])

\* params={'per_page': 100}
PER_PAGE == 100

\* a site has up to PER_PAGE + MaxExtraCats categories
MaxExtraCats == 2

\* no id of the model is above IdCeiling
IdCeiling == PER_PAGE + MaxExtraCats + MaxCatId

\* a set of ids in ascending order
Ascending(S) == SelectSeq([i \in 1..IdCeiling |-> i], LAMBDA i : i \in S)

\* the outcome of one request: the success status with a well-formed body,
\* another status, or an exception (network error, unparsable body)
HttpKinds == {"ok", "status", "exception"}

\* the answers to POST /posts: a status with a well-formed body, 201 with a
\* body that is not the JSON of a post, or no answer (network error)
PostResponses == {"201", "201_badjson", "200", "401", "500", "exception"}

\* client.call(...): the value is returned, or an exception is raised (a Fault
\* for bad credentials, a ProtocolError, a network or a parse error)
RpcOutcomes == {"ok", "exception"}

\* WordPress matches ?search= without regard to case
Fold(name) == IF name = "News" THEN "news" ELSE name

\* GET /categories: the site's categories as JSON objects, by id
Server_categories(cats) ==
    LET ids == Ascending(cats)
    IN  [i \in 1..Len(ids) |-> [id |-> ids[i], name |-> CatName(ids[i])]]

\* GET /categories?search=term
Server_categories_search(cats, term) ==
    SelectSeq(Server_categories(cats), LAMBDA c : Fold(c.name) = Fold(term))

\* wp.getTerms('category'): WordPressTerm objects, whose id is a string
Server_getTerms(cats) ==
    LET ids == Ascending(cats)
    IN  [i \in 1..Len(ids) |-> [id |-> PyStr(ids[i]), name |-> CatName(ids[i])]]

\* random.choice(seq); rnd is the random source
Choice(seq, rnd) == seq[(rnd % Len(seq)) + 1]

\* the first element of seq whose name is `name`, or <<>>
FirstNamed(seq, name) ==
    LET hits == {i \in 1..Len(seq) : seq[i].name = name}
    IN  IF hits = {} THEN <<>>
        ELSE <<seq[CHOOSE i \in hits : \A j \in hits : i <= j]>>

----------------------------------------------------------------------------
(* WordPressRESTPublisher                                                  *)

FirstPage(seq, n) == SubSeq(seq, 1, IF Len(seq) < n THEN Len(seq) ELSE n)

\* a slip: the request leaves per_page out, and the site answers with its
\* default page of 10
REST_get_all_categories_DefaultPage(kind, cats) ==
    IF kind = "ok" THEN FirstPage(Server_categories(cats), 10) ELSE <<>>

\* a slip: the category list is fetched once, when the adapter is constructed
\* (the site then has the built-in category only), and reused
REST_get_all_categories_Cached(kind, cats) ==
    IF kind = "ok" THEN FirstPage(Server_categories({RESERVED_DEFAULT_ID}), PER_PAGE) ELSE <<>>

REST_get_all_categories(kind, cats) ==
    IF kind = "ok" THEN FirstPage(Server_categories(cats), PER_PAGE) ELSE <<>>

\* a slip: the built-in category is not filtered out
REST_get_random_category_id_NoFilter(kind, cats, rnd) ==
    LET categories == REST_get_all_categories(kind, cats)
    IN  IF categories = <<>> THEN None ELSE Choice(categories, rnd).id

REST_get_random_category_id(kind, cats, rnd) ==
    LET categories == REST_get_all_categories(kind, cats)
        valid_categories == SelectSeq(categories, LAMBDA c : c.id # RESERVED_DEFAULT_ID)
        pool == IF valid_categories = <<>> THEN categories ELSE valid_categories
    IN  IF categories = <<>> THEN None ELSE Choice(pool, rnd).id

\* a slip: the first search result is taken without comparing its name
REST_get_category_id_FirstResult(category_name, kind, cats) ==
    IF kind = "ok"
    THEN LET found == Server_categories_search(cats, category_name)
         IN  IF found = <<>> THEN None ELSE found[1].id
    ELSE None

REST_get_category_id(category_name, kind, cats) ==
    IF kind = "ok"
    THEN LET found == FirstNamed(Server_categories_search(cats, category_name), category_name)
         IN  IF found = <<>> THEN None ELSE found[1].id
    ELSE None

\* publish_post, "设置分类": the categories field of post_data
REST_resolve_category(category_name, env, cats) ==
    LET looked == IF category_name # "" THEN REST_get_category_id(category_name, env.lookup, cats)
                  ELSE None
        category_id == IF looked = None
                       THEN REST_get_random_category_id(env.all, cats, env.rnd)
                       ELSE looked
    IN  [usedRandom |-> looked = None,
         hasCat |-> category_id # None,
         cat |-> category_id]

\* the outcome of the requests create_tag makes for one tag:
\*   "ok"            the site answers both
\*   "create_error"  POST /tags raises or answers neither 201 nor 400
\*   "lookup_error"  GET /tags?search= raises or does not answer 200
TagKinds == {"ok", "create_error", "lookup_error"}

\* GET /tags?search=term
Server_tags_search(siteTags, term) ==
    LET ids == Ascending({TagId(t) : t \in {x \in siteTags : Fold(x) = Fold(term)}})
    IN  [i \in 1..Len(ids) |->
            [id |-> ids[i], name |-> CHOOSE t \in TagNames : TagId(t) = ids[i]]]

\* a slip: a 400 answer is not followed by the lookup
REST_create_tag_NoLookup(tag_name, kind, siteTags) ==
    IF kind = "create_error" THEN [id |-> None, tags |-> siteTags]
    ELSE IF tag_name \notin siteTags
         THEN [id |-> TagId(tag_name), tags |-> siteTags \cup {tag_name}]
         ELSE [id |-> None, tags |-> siteTags]

\* create_tag: the id returned, and the site's tags afterwards
REST_create_tag(tag_name, kind, siteTags) ==
    IF kind = "create_error" THEN [id |-> None, tags |-> siteTags]
    ELSE IF tag_name \notin siteTags
         THEN [id |-> TagId(tag_name), tags |-> siteTags \cup {tag_name}]   \* 201
         ELSE IF kind = "lookup_error"                                       \* 400
              THEN [id |-> None, tags |-> siteTags]
              ELSE LET found == FirstNamed(Server_tags_search(siteTags, tag_name), tag_name)
                   IN  [id |-> IF found = <<>> THEN None ELSE found[1].id,
                        tags |-> siteTags]

\* a slip: the loop ends at the first tag that has no id
RECURSIVE REST_resolve_tags_StopAtFailure(_, _, _)
REST_resolve_tags_StopAtFailure(tags, kinds, siteTags) ==
    IF tags = <<>> THEN [tag_ids |-> <<>>, tags |-> siteTags]
    ELSE LET one == REST_create_tag(Head(tags), Head(kinds), siteTags)
             rest == REST_resolve_tags_StopAtFailure(Tail(tags), Tail(kinds), one.tags)
         IN  IF one.id = None THEN [tag_ids |-> <<>>, tags |-> one.tags]
             ELSE [tag_ids |-> <<one.id>> \o rest.tag_ids, tags |-> rest.tags]

\* publish_post, "设置标签": tag_ids and the site's tags afterwards
RECURSIVE REST_resolve_tags(_, _, _)
REST_resolve_tags(tags, kinds, siteTags) ==
    IF tags = <<>> THEN [tag_ids |-> <<>>, tags |-> siteTags]
    ELSE LET one == REST_create_tag(Head(tags), Head(kinds), siteTags)
             rest == REST_resolve_tags(Tail(tags), Tail(kinds), one.tags)
         IN  [tag_ids |-> (IF one.id # None THEN <<one.id>> ELSE <<>>) \o rest.tag_ids,
              tags |-> rest.tags]

\* a slip: publish_post catches RequestException only, so the error of
\* response.json() on a malformed body leaves it
REST_create_post_NarrowExcept(response, id) ==
    CASE response = "201" -> [value |-> PyStr(id), raised |-> FALSE]
      [] response = "201_badjson" -> [value |-> PyNone, raised |-> TRUE]
      [] OTHER -> [value |-> PyNone, raised |-> FALSE]

\* a slip: every 2xx status is taken as success
REST_create_post_Any2xx(response, id) ==
    CASE response \in {"201", "200"} -> [value |-> PyStr(id), raised |-> FALSE]
      [] OTHER -> [value |-> PyNone, raised |-> FALSE]

\* publish_post, "发布文章": POST /posts; the value returned and whether an
\* exception left publish_post (`except Exception` returns None for each)
REST_create_post(response, id) ==
    CASE response = "201" -> [value |-> PyStr(id), raised |-> FALSE]
      [] response \in {"201_badjson", "exception"} -> [value |-> PyNone, raised |-> FALSE]
      [] OTHER -> [value |-> PyNone, raised |-> FALSE]

\* category or self.default_category
CategoryOrDefault(self, category) ==
    IF category # "" THEN category ELSE self.default_category

\* status or self.default_status
StatusOrDefault(self, status) ==
    IF status # "" THEN status ELSE self.default_status

\* One publish_post call.
\*   args: [category, status, tags], the arguments
\*   env:  [lookup, all, rnd, tagKinds, create, id], the outcomes of its requests
\* The value is the post sent and the result returned:
\*   categories / tags        post_data['categories'], post_data['tags'] (<<>>: no field)
\*   category_names/tag_names terms_names['category'], terms_names['post_tag'] (XML-RPC)
REST_publish_post(self, args, env, cats, siteTags) ==
    LET category_name == CategoryOrDefault(self, args.category)
        c == REST_resolve_category(category_name, env, cats)
        t == IF args.tags # <<>> THEN REST_resolve_tags(args.tags, env.tagKinds, siteTags)
             ELSE [tag_ids |-> <<>>, tags |-> siteTags]
    IN  [adapter |-> "rest",
         category_name |-> category_name,
         usedRandom |-> c.usedRandom,
         status |-> StatusOrDefault(self, args.status),
         categories |-> IF c.hasCat THEN <<c.cat>> ELSE <<>>,
         tags |-> t.tag_ids,
         category_names |-> <<>>,
         tag_names |-> <<>>,
         issued |-> TRUE,
         result |-> REST_create_post(env.create, env.id).value,
         raised |-> REST_create_post(env.create, env.id).raised,
         siteTags |-> t.tags]

----------------------------------------------------------------------------
(* WordPressXMLRPCPublisher: client.call returns ("ok") or raises          *)

RPC_get_all_categories(kind, cats) ==
    IF kind = "ok" THEN Server_getTerms(cats) ELSE <<>>

\* a slip: with no category to choose from, the built-in one is named
RPC_get_random_category_DefaultWhenEmpty(kind, cats, rnd) ==
    LET categories == RPC_get_all_categories(kind, cats)
        valid_categories ==
            SelectSeq(categories, LAMBDA c : PyInt(c.id) # RESERVED_DEFAULT_ID)
        pool == IF valid_categories = <<>> THEN categories ELSE valid_categories
        random_cat == Choice(pool, rnd)
    IN  IF categories = <<>> THEN <<CatName(RESERVED_DEFAULT_ID), RESERVED_DEFAULT_ID>>
        ELSE <<random_cat.name, PyInt(random_cat.id)>>

\* (name, id) or <<>> for None
RPC_get_random_category(kind, cats, rnd) ==
    LET categories == RPC_get_all_categories(kind, cats)
        valid_categories ==
            SelectSeq(categories, LAMBDA c : PyInt(c.id) # RESERVED_DEFAULT_ID)
        pool == IF valid_categories = <<>> THEN categories ELSE valid_categories
        random_cat == Choice(pool, rnd)
    IN  IF categories = <<>> THEN <<>> ELSE <<random_cat.name, PyInt(random_cat.id)>>

RPC_get_category_id(category_name, kind, cats) ==
    IF kind = "ok"
    THEN LET found == FirstNamed(Server_getTerms(cats), category_name)
         IN  IF found = <<>> THEN None ELSE PyInt(found[1].id)
    ELSE None

\* publish_post, "设置分类": selected_category_name ("" for None)
RPC_resolve_category(category_name, env, cats) ==
    LET category_id == IF category_name # ""
                       THEN RPC_get_category_id(category_name, env.lookup, cats)
                       ELSE None
        looked == IF category_id # None THEN category_name ELSE ""
        random_cat == RPC_get_random_category(env.all, cats, env.rnd)
        selected == IF looked # "" THEN looked
                    ELSE IF random_cat # <<>> THEN random_cat[1] ELSE ""
    IN  [usedRandom |-> looked = "", selected |-> selected]

\* client.call(NewPost(post)); the value returned and whether an exception
\* left publish_post
RPC_create_post(outcome, id) ==
    IF outcome = "ok" THEN [value |-> PyStr(id), raised |-> FALSE]
    ELSE [value |-> PyNone, raised |-> FALSE]

RPC_publish_post(self, args, env, cats, siteTags) ==
    LET category_name == CategoryOrDefault(self, args.category)
        c == RPC_resolve_category(category_name, env, cats)
    IN  [adapter |-> "xmlrpc",
         category_name |-> category_name,
         usedRandom |-> c.usedRandom,
         status |-> StatusOrDefault(self, args.status),
         categories |-> <<>>,
         tags |-> <<>>,
         category_names |-> IF c.selected # "" THEN <<c.selected>> ELSE <<>>,
         tag_names |-> args.tags,
         issued |-> TRUE,
         result |-> RPC_create_post(env.create, env.id).value,
         raised |-> RPC_create_post(env.create, env.id).raised,
         \* the site creates the tags named in terms_names when it creates the post
         siteTags |-> IF env.create = "ok"
                      THEN siteTags \cup {args.tags[i] : i \in 1..Len(args.tags)}
                      ELSE siteTags]

----------------------------------------------------------------------------
(* create_publisher                                                        *)

\* the answers to GET /users/me: 200 with the JSON of a user, 200 with a body
\* that is not JSON, 200 with JSON that is not an object, other statuses, or
\* no answer (timeout, connection refused)
UserMeResponses ==
    {"200", "200_badjson", "200_notobject", "401", "500", "request_exception"}

\* WordPressRESTPublisher.test_connection: "true", "false" or "raises".
\* response.json() raises on an unparsable body; whether that error is a
\* RequestException depends on the installed requests version (jsonIsReqExc).
\* user_data.get raises AttributeError when the JSON is not an object.
REST_test_connection(response, jsonIsReqExc) ==
    CASE response = "200" -> "true"
      [] response = "200_badjson" -> IF jsonIsReqExc THEN "false" ELSE "raises"
      [] response = "200_notobject" -> "raises"
      [] response = "401" -> "false"
      [] response = "request_exception" -> "false"
      [] OTHER -> "false"

\* WordPressXMLRPCPublisher.test_connection
RPC_test_connection(kind) == IF kind = "ok" THEN "true" ELSE "false"

\* The environment of one create_publisher call:
\*   restCtor, rpcCtor  "ok" or "raises": the adapter's constructor
\*   restResp           the answer to GET /users/me
\*   jsonIsReqExc       see REST_test_connection
\*   rpcCall            the outcome of the XML-RPC getTerms call
FactoryEnvs ==
    [restCtor : {"ok", "raises"}, restResp : UserMeResponses, jsonIsReqExc : BOOLEAN,
     rpcCtor : {"ok", "raises"}, rpcCall : RpcOutcomes]

\* a slip: the REST branch catches RequestException only, so the constructor's
\* and test_connection's other exceptions leave it
Auto_rest_branch_NarrowExcept(env) ==
    IF env.restCtor = "raises" THEN [outcome |-> "ctor_raises", escaped |-> TRUE]
    ELSE LET t == REST_test_connection(env.restResp, env.jsonIsReqExc)
         IN  [outcome |-> IF t = "true" THEN "test_true"
                          ELSE IF t = "false" THEN "test_false" ELSE "test_raises",
              escaped |-> t = "raises"]

\* the first try block of the auto branch: what happened in it, and whether
\* an exception left it (`except Exception` catches every one)
Auto_rest_branch(env) ==
    IF env.restCtor = "raises" THEN [outcome |-> "ctor_raises", escaped |-> FALSE]
    ELSE LET t == REST_test_connection(env.restResp, env.jsonIsReqExc)
         IN  [outcome |-> IF t = "true" THEN "test_true"
                          ELSE IF t = "false" THEN "test_false" ELSE "test_raises",
              escaped |-> FALSE]

\* the second try block of the auto branch
Auto_rpc_branch(env) ==
    IF env.rpcCtor = "raises" THEN [outcome |-> "ctor_raises", escaped |-> FALSE]
    ELSE [outcome |-> IF RPC_test_connection(env.rpcCall) = "true"
                      THEN "test_true" ELSE "test_false",
          escaped |-> FALSE]

\* a slip: the XML-RPC test's result is read the wrong way round
Auto_select_InvertedRpcTest(env) ==
    LET rest == Auto_rest_branch(env)
        rpc == Auto_rpc_branch(env)
    IN  IF rest.outcome = "test_true"
        THEN [result |-> "rest", rest |-> rest.outcome, rpc |-> "not_run", escaped |-> FALSE]
        ELSE [result |-> IF rpc.outcome = "test_true" THEN "none" ELSE "xmlrpc",
              rest |-> rest.outcome, rpc |-> rpc.outcome, escaped |-> FALSE]

\* a slip: the auto branch tries the XML-RPC adapter first
Auto_select_RpcFirst(env) ==
    LET rest == Auto_rest_branch(env)
        rpc == Auto_rpc_branch(env)
    IN  IF rpc.outcome = "test_true"
        THEN [result |-> "xmlrpc", rest |-> "not_run", rpc |-> rpc.outcome, escaped |-> FALSE]
        ELSE [result |-> IF rest.outcome = "test_true" THEN "rest" ELSE "none",
              rest |-> rest.outcome, rpc |-> rpc.outcome, escaped |-> FALSE]

\* api_method == 'auto'. escaped: an exception left the branch's own try blocks
Auto_select(env) ==
    LET rest == Auto_rest_branch(env)
        rpc == Auto_rpc_branch(env)
    IN  IF rest.escaped
        THEN [result |-> "none", rest |-> rest.outcome, rpc |-> "not_run", escaped |-> TRUE]
        ELSE IF rest.outcome = "test_true"
        THEN [result |-> "rest", rest |-> rest.outcome, rpc |-> "not_run", escaped |-> FALSE]
        ELSE [result |-> IF rpc.outcome = "test_true" /\ ~rpc.escaped THEN "xmlrpc" ELSE "none",
              rest |-> rest.outcome, rpc |-> rpc.outcome, escaped |-> rpc.escaped]

\* api_method == 'rest' / 'xmlrpc': the adapter is constructed and returned; the
\* constructor's exception is not caught here. rest / rpc: what the constructor
\* of that adapter did, "not_run" for the adapter that is not constructed
Forced_select(kind, ctor) ==
    LET made == IF ctor = "raises" THEN "ctor_raises" ELSE "ctor_ok"
    IN  [result |-> IF ctor = "raises" THEN "none" ELSE kind,
         rest |-> IF kind = "rest" THEN made ELSE "not_run",
         rpc |-> IF kind = "xmlrpc" THEN made ELSE "not_run",
         escaped |-> ctor = "raises"]

\* a slip: the forced modes test the connection as 'auto' does and return None
\* when the test fails
create_publisher_ForcedTested(cfg, env) ==
    LET t == IF cfg.api_method = "rest"
             THEN REST_test_connection(env.restResp, env.jsonIsReqExc)
             ELSE RPC_test_connection(env.rpcCall)
        f == IF cfg.api_method = "rest" THEN Forced_select("rest", env.restCtor)
             ELSE Forced_select("xmlrpc", env.rpcCtor)
        body ==
            IF ~cfg.enabled
            THEN [result |-> "none", rest |-> "not_run", rpc |-> "not_run", escaped |-> FALSE]
            ELSE IF ~cfg.complete
            THEN [result |-> "none", rest |-> "not_run", rpc |-> "not_run", escaped |-> TRUE]
            ELSE CASE cfg.api_method = "auto" -> Auto_select(env)
                   [] cfg.api_method \in {"rest", "xmlrpc"} ->
                        [result |-> IF t = "true" THEN f.result ELSE "none",
                         rest |-> f.rest, rpc |-> f.rpc, escaped |-> f.escaped]
                   [] OTHER -> [result |-> "none", rest |-> "not_run", rpc |-> "not_run",
                                escaped |-> FALSE]
        tested == {"test_true", "test_false", "test_raises"}
    IN  [called |-> TRUE,
         result |-> IF body.escaped THEN "none" ELSE body.result,
         raised |-> FALSE,
         rest |-> body.rest,
         rpc |-> body.rpc,
         restResp |-> IF body.rest \in tested THEN env.restResp ELSE "not_run",
         rpcCall |-> IF body.rpc \in tested THEN env.rpcCall ELSE "not_run"]

\* config: [enabled, complete, api_method, category, status]; complete: the url,
\* username and password keys are present (config['url'] raises KeyError otherwise)
create_publisher(cfg, env) ==
    LET body ==
            IF ~cfg.enabled
            THEN [result |-> "none", rest |-> "not_run", rpc |-> "not_run", escaped |-> FALSE]
            ELSE IF ~cfg.complete
            THEN [result |-> "none", rest |-> "not_run", rpc |-> "not_run", escaped |-> TRUE]
            ELSE CASE cfg.api_method = "auto" -> Auto_select(env)
                   [] cfg.api_method = "rest" -> Forced_select("rest", env.restCtor)
                   [] cfg.api_method = "xmlrpc" -> Forced_select("xmlrpc", env.rpcCtor)
                   [] OTHER -> [result |-> "none", rest |-> "not_run", rpc |-> "not_run",
                                escaped |-> FALSE]
        tested == {"test_true", "test_false", "test_raises"}
    IN  \* the outer `except Exception` returns None for whatever escaped
        [called |-> TRUE,
         result |-> IF body.escaped THEN "none" ELSE body.result,
         raised |-> FALSE,
         rest |-> body.rest,
         rpc |-> body.rpc,
         \* what each test_connection call was answered
         restResp |-> IF body.rest \in tested THEN env.restResp ELSE "not_run",
         rpcCall |-> IF body.rpc \in tested THEN env.rpcCall ELSE "not_run"]

----------------------------------------------------------------------------
(* AutoPost.run and AutoPost.publish_to_wordpress                          *)

NotCalled == [called |-> FALSE]

NoPublisher == [kind |-> "none"]

NoCall == [adapter |-> "none"]

\* a key that config.yaml does not set
ABSENT == "<absent>"

Configs ==
    [enabled : BOOLEAN, complete : BOOLEAN,
     api_method : {"auto", "rest", "xmlrpc", "ftp"},
     category : {ABSENT, "News"}, status : {ABSENT, "publish"}]

\* create_publisher: config.get('category', '未分类'), config.get('status', 'draft')
Constructed(kind, cfg) ==
    [kind |-> kind,
     default_category |-> IF cfg.category = ABSENT THEN "Uncategorized" ELSE cfg.category,
     default_status |-> IF cfg.status = ABSENT THEN "draft" ELSE cfg.status]

\* publish_to_wordpress: wp_config.get('category', '默认分类'), .get('status', 'draft'),
\* tags = [keyword]
PublishArgs(cfg, keyword) ==
    [category |-> IF cfg.category = ABSENT THEN "Misc" ELSE cfg.category,
     status |-> IF cfg.status = ABSENT THEN "draft" ELSE cfg.status,
     tags |-> IF keyword # "" THEN <<keyword>> ELSE <<>>]

\* the outcomes of the requests of one publish_post call on `tags`
CallEnvs(tags) ==
    [lookup : HttpKinds, all : HttpKinds, rnd : 0..(MaxCatId - 1),
     tagKinds : [1..Len(tags) -> TagKinds],
     create : PostResponses \cup RpcOutcomes, id : PostIds]

\* the adapter's publish_post
publish_post(self, args, env, cats, siteTags) ==
    IF self.kind = "rest" THEN REST_publish_post(self, args, env, cats, siteTags)
    ELSE RPC_publish_post(self, args, env, cats, siteTags)

\* the REST endpoints one REST publish_post call requests
REST_endpoints(args) ==
    {"categories", "posts"} \cup (IF args.tags # <<>> THEN {"tags"} ELSE {})

\* what the model keeps of a call besides the post and the result: the site and
\* the outcomes of the requests as they were during the call
Observed(call, args, env, cats, siteTags) ==
    [adapter |-> call.adapter, category_name |-> call.category_name,
     usedRandom |-> call.usedRandom, status |-> call.status,
     categories |-> call.categories, tags |-> call.tags,
     category_names |-> call.category_names, tag_names |-> call.tag_names,
     issued |-> call.issued, result |-> call.result, raised |-> call.raised,
     create |-> env.create, postId |-> env.id,
     cats |-> cats, tagsBefore |-> siteTags, tagsReq |-> args.tags,
     tagKinds |-> IF call.adapter = "rest" THEN env.tagKinds
                  ELSE [i \in 1..Len(args.tags) |-> "ok"],
     lookupOk |-> call.category_name # "" /\ env.lookup = "ok",
     allOk |-> call.usedRandom /\ env.all = "ok",
     createOk |-> env.create = (IF call.adapter = "rest" THEN "201" ELSE "ok")]

\* env names each outcome once: a request the call does not make has outcome
\* "ok", and the random source is below the number of categories
Canonical(call, env, cats) ==
    /\ env.create \in (IF call.adapter = "rest" THEN PostResponses ELSE RpcOutcomes)
    /\ call.category_name = "" => env.lookup = "ok"
    /\ ~call.usedRandom => env.all = "ok"
    /\ env.rnd = 0 \/ (call.usedRandom /\ env.all = "ok" /\ env.rnd < Cardinality(cats))

\* a publish_post call on the adapter in use
Publish(args, env) ==
    LET call == publish_post(publisher, args, env, remoteCats, remoteTags)
    IN  /\ Canonical(call, env, remoteCats)
        /\ lastCall' = Observed(call, args, env, remoteCats, remoteTags)
        /\ remoteTags' = call.siteTags
        /\ restHits' = IF publisher.kind = "rest"
                       THEN restHits \cup REST_endpoints(args) ELSE restHits
        /\ UNCHANGED remoteCats

RunInit ==
    /\ runPc = "start"
    /\ config \in Configs
    /\ factory = NotCalled
    /\ publisher = NoPublisher
    /\ restHits = {}

\* the site of a run: the built-in category and one more
SiteInit ==
    /\ remoteCats = {1, 2}
    /\ remoteTags = {}
    /\ lastCall = NoCall

\* a slip: run builds the REST adapter whatever the factory selected
RunPublisher_AlwaysRest(f, t, cfg) ==
    IF f.result # "none" THEN Constructed("rest", cfg) ELSE NoPublisher

\* run: self.publisher after `if self.publisher and self.publisher.test_connection()`
RunPublisher(f, t, cfg) ==
    IF f.result # "none" /\ t = "true" THEN Constructed(f.result, cfg) ELSE NoPublisher

\* run, "初始化 WordPress 发布器": create_publisher, then test_connection again
RunInitPublisher ==
    /\ runPc = "start"
    /\ runPc' = "batch"
    /\ IF config.enabled
       THEN \E env \in FactoryEnvs, again \in UserMeResponses, rpcAgain \in RpcOutcomes :
              LET f == create_publisher(config, env)
                  t == IF f.result = "rest"
                       THEN REST_test_connection(again, env.jsonIsReqExc)
                       ELSE RPC_test_connection(rpcAgain)
              IN  /\ factory' = f
                  /\ publisher' = RunPublisher(f, t, config)
                  /\ restHits' = IF f.result = "rest" THEN {"users/me"} ELSE {}
       ELSE UNCHANGED <<factory, publisher, restHits>>
    /\ UNCHANGED <<config, siteVars, urlVars, genVars, batchVars>>

Keywords == TagNames

\* publish_to_wordpress(title, content, keyword), called when self.publisher is set
PublishToWordpress ==
    /\ runPc = "batch"
    /\ publisher.kind # "none"
    /\ lastCall = NoCall
    /\ \E keyword \in Keywords :
         LET args == PublishArgs(config, keyword)
         IN  \E env \in CallEnvs(args.tags) : Publish(args, env)
    /\ UNCHANGED <<runPc, config, factory, publisher, urlVars, genVars, batchVars>>

\* the caller takes the result of the call
TakeResult ==
    /\ lastCall # NoCall
    /\ lastCall' = NoCall
    /\ UNCHANGED <<remoteCats, remoteTags, runVars, urlVars, genVars, batchVars>>

Init == UrlIdle /\ RunInit /\ SiteInit /\ GenIdle

Next == RunInitPublisher \/ PublishToWordpress \/ TakeResult

Spec == Init /\ [][Next]_vars

----------------------------------------------------------------------------
(* The adapters called directly, on a site whose categories change         *)

DefaultCategories == {"", "news"}

\* an adapter constructed with its default_status `draft`
AdapterInit ==
    /\ runPc = "adapter"
    /\ config = [enabled |-> FALSE]
    /\ factory = NotCalled
    /\ restHits = {}
    /\ \E kind \in {"rest", "xmlrpc"}, dc \in DefaultCategories :
         publisher = [kind |-> kind, default_category |-> dc, default_status |-> "draft"]
    /\ remoteCats = {RESERVED_DEFAULT_ID}
    /\ remoteTags = {}
    /\ lastCall = NoCall

\* the tags a caller passes: None, or [keyword] as publish_to_wordpress does
CallerTags == {<<>>, <<"seo">>}

AdapterPublishPost ==
    /\ runPc = "adapter"
    /\ lastCall = NoCall
    /\ \E category \in CategoryNames, status \in {"", "publish"}, tags \in CallerTags :
         \E env \in CallEnvs(tags) :
            Publish([category |-> category, status |-> status, tags |-> tags], env)
    /\ UNCHANGED <<runPc, config, factory, publisher, urlVars, genVars, batchVars>>

\* the site's administrator adds or removes a category
SiteAddCategory ==
    /\ lastCall = NoCall
    /\ \E c \in CatIds \ remoteCats : remoteCats' = remoteCats \cup {c}
    /\ UNCHANGED <<remoteTags, lastCall, runVars, urlVars, genVars, batchVars>>

SiteRemoveCategory ==
    /\ lastCall = NoCall
    /\ \E c \in remoteCats : remoteCats' = remoteCats \ {c}
    /\ UNCHANGED <<remoteTags, lastCall, runVars, urlVars, genVars, batchVars>>

AdapterNext == AdapterPublishPost \/ TakeResult \/ SiteAddCategory \/ SiteRemoveCategory

InitAdapter == UrlIdle /\ AdapterInit /\ GenIdle

SpecAdapter == InitAdapter /\ [][AdapterNext]_vars

----------------------------------------------------------------------------
(* The REST adapter called with several tags, on a site whose tags change  *)

\* the number of tags of one call
MaxTags == 2

TagLists == UNION {[1..n -> TagNames] : n \in 0..MaxTags}

TagsInit ==
    /\ runPc = "adapter"
    /\ config = [enabled |-> FALSE]
    /\ factory = NotCalled
    /\ restHits = {}
    /\ publisher = [kind |-> "rest", default_category |-> "News", default_status |-> "draft"]
    /\ remoteCats = {1, 2}
    /\ remoteTags \in SUBSET TagNames
    /\ lastCall = NoCall

TagsPublishPost ==
    /\ runPc = "adapter"
    /\ lastCall = NoCall
    /\ \E tags \in TagLists : \E env \in CallEnvs(tags) :
            Publish([category |-> "", status |-> "", tags |-> tags], env)
    /\ UNCHANGED <<runPc, config, factory, publisher, urlVars, genVars, batchVars>>

\* the site's administrator removes a tag
SiteRemoveTag ==
    /\ lastCall = NoCall
    /\ \E t \in remoteTags : remoteTags' = remoteTags \ {t}
    /\ UNCHANGED <<remoteCats, lastCall, runVars, urlVars, genVars, batchVars>>

TagsNext == TagsPublishPost \/ TakeResult \/ SiteRemoveTag

InitTags == UrlIdle /\ TagsInit /\ GenIdle

SpecTags == InitTags /\ [][TagsNext]_vars

----------------------------------------------------------------------------
(* The REST adapter's constructor on every configured URL                 *)

InitUrl ==
    /\ UrlInit
    /\ runPc = "url"
    /\ config = [enabled |-> FALSE]
    /\ factory = NotCalled
    /\ publisher = NoPublisher
    /\ restHits = {}
    /\ SiteInit
    /\ GenIdle

UrlNext == RESTPublisherInit

SpecUrl == InitUrl /\ [][UrlNext]_vars

----------------------------------------------------------------------------
(* Properties of create_publisher and of a run (Spec)                      *)

AutoCalled ==
    /\ factory.called
    /\ config.enabled
    /\ config.complete
    /\ config.api_method = "auto"

RestBranchFailures == {"ctor_raises", "test_raises", "test_false"}

RpcBranchFailures == {"ctor_raises", "test_false"}

(* C1: create_publisher in 'auto' mode: whenever the REST adapter's
   test_connection returns false and the XML-RPC adapter's test_connection
   returns true, the value returned is the XML-RPC adapter. *)
C1_AutoReturnsRpcAfterRestFalse ==
    (AutoCalled /\ factory.rest = "test_false" /\ factory.rpc = "test_true")
        => factory.result = "xmlrpc"

C1_Witness ==
    /\ AutoCalled
    /\ factory.rest = "test_false"
    /\ factory.rpc = "test_true"
    /\ factory.result = "xmlrpc"

(* C2: create_publisher in 'auto' mode never raises: a constructor that
   raises, a test_connection that raises and a test_connection that returns
   false are each that branch's failure; after a failed REST branch the
   XML-RPC branch is tried, and when both branches fail the value is None. *)
C2_AutoNeverRaises ==
    AutoCalled =>
        /\ ~factory.raised
        /\ factory.rest \in RestBranchFailures => factory.rpc # "not_run"
        /\ (factory.rest \in RestBranchFailures /\ factory.rpc \in RpcBranchFailures)
              => factory.result = "none"
        /\ (factory.rest \in RestBranchFailures /\ factory.rpc = "test_true")
              => factory.result = "xmlrpc"

C2_Witness ==
    /\ AutoCalled
    /\ factory.rest = "test_raises"
    /\ factory.rpc = "ctor_raises"
    /\ factory.result = "none"
    /\ ~factory.raised

(* C3: in a run whose 'auto' selection fell over from REST (test_connection
   false) to XML-RPC, every publish_post call is made on the XML-RPC adapter
   and no REST endpoint is requested after create_publisher returned. *)
C3_FailoverRunPublishesByRpcOnly ==
    (AutoCalled /\ factory.rest = "test_false" /\ factory.rpc = "test_true")
        => /\ publisher.kind \in {"none", "xmlrpc"}
           /\ lastCall.adapter \in {"none", "xmlrpc"}
           /\ restHits \cap {"posts", "categories", "tags"} = {}

C3_Witness ==
    /\ AutoCalled
    /\ factory.rest = "test_false"
    /\ factory.rpc = "test_true"
    /\ lastCall.adapter = "xmlrpc"
    /\ lastCall.result # PyNone
    /\ restHits = {}

----------------------------------------------------------------------------
(* Properties of publish_post: categories (SpecAdapter)                    *)

Called == lastCall.adapter # "none"

\* the names of the site's categories during the call
CallCatNames == {CatName(c) : c \in lastCall.cats}

\* the ids of the categories the post was created with
AttachedIds ==
    IF lastCall.adapter = "rest"
    THEN {lastCall.categories[i] : i \in 1..Len(lastCall.categories)}
    ELSE {c \in CatIds : \E i \in 1..Len(lastCall.category_names) :
                            lastCall.category_names[i] = CatName(c)}

\* the post carries a category field (REST) or a category term (XML-RPC)
HasCategory == lastCall.categories # <<>> \/ lastCall.category_names # <<>>

(* C5: when the requested or default category name is not among the site's
   categories, or no name is given, the post is created with the reserved
   category (id 1) only if the site has no other category. *)
C5_ReservedDefaultOnlyWhenAlone ==
    (Called /\ lastCall.category_name \notin CallCatNames)
        => (RESERVED_DEFAULT_ID \in AttachedIds => lastCall.cats = {RESERVED_DEFAULT_ID})

C5_Witness ==
    /\ lastCall.adapter = "rest"
    /\ lastCall.category_name = "Misc"
    /\ lastCall.cats = {1, 2, 3}
    /\ lastCall.usedRandom
    /\ lastCall.categories = <<3>>

\* the post was created with the category named category_name and nothing else
AttachedIsNamed ==
    IF lastCall.adapter = "rest"
    THEN /\ Len(lastCall.categories) = 1
         /\ lastCall.categories[1] \in lastCall.cats
         /\ CatName(lastCall.categories[1]) = lastCall.category_name
    ELSE lastCall.category_names = <<lastCall.category_name>>

(* C6 as claimed: whenever the site has a category whose name equals the
   supplied name exactly, the post is created with that category and the
   random fallback is not used. *)
C6_NamedCategoryAlwaysUsed ==
    (Called /\ lastCall.category_name \in CallCatNames)
        => (AttachedIsNamed /\ ~lastCall.usedRandom)

(* C6, amended: whenever the lookup request succeeds and the site has a
   category whose name equals the supplied name exactly (same case), the
   post is created with that category (REST: its id, XML-RPC: its name) and
   the random fallback is not used. *)
C6_NamedCategoryUsedWhenLookupAnswers ==
    (Called /\ lastCall.lookupOk /\ lastCall.category_name \in CallCatNames)
        => (AttachedIsNamed /\ ~lastCall.usedRandom)

C6_Witness ==
    /\ lastCall.adapter = "rest"
    /\ lastCall.category_name = "news"
    /\ lastCall.cats = {1, 2, 3}
    /\ lastCall.lookupOk
    /\ lastCall.categories = <<3>>
    /\ ~lastCall.usedRandom

(* C7: when the site has no category, or its categories cannot be fetched,
   the create-post call is still issued, without a category, and the result
   is the post id exactly when that call succeeds. *)
C7_EmptyCategorySetStillPublishes ==
    (Called /\ (lastCall.cats = {} \/ (~lastCall.lookupOk /\ ~lastCall.allOk)))
        => /\ lastCall.issued
           /\ ~HasCategory
           /\ lastCall.createOk <=> lastCall.result # PyNone

C7_Witness ==
    /\ lastCall.adapter = "xmlrpc"
    /\ lastCall.cats = {}
    /\ lastCall.lookupOk
    /\ lastCall.allOk
    /\ lastCall.issued
    /\ ~HasCategory
    /\ lastCall.result = <<"4", "2">>

(* C8: categories are never cached: whatever calls and changes of the site
   came before, the category a call attaches is one the site has during
   that call. *)
C8_AttachedCategoryIsCurrent ==
    Called =>
        /\ \A i \in 1..Len(lastCall.categories) : lastCall.categories[i] \in lastCall.cats
        /\ \A i \in 1..Len(lastCall.category_names) :
              lastCall.category_names[i] \in CallCatNames

C8_Witness ==
    /\ lastCall.adapter = "rest"
    /\ lastCall.cats = {2, 3}
    /\ lastCall.usedRandom
    /\ lastCall.categories = <<2>>

----------------------------------------------------------------------------
(* Properties of the REST publish_post: tags (SpecTags)                    *)

TagPositions == 1..Len(lastCall.tagsReq)

\* the site's tags when create_tag is called for position i: a tag named
\* earlier in the list exists unless its POST failed
TagsAt(i) ==
    lastCall.tagsBefore
        \cup {lastCall.tagsReq[j] : j \in {k \in 1..(i - 1) : lastCall.tagKinds[k] # "create_error"}}

\* the site rejects the creation at position i: the tag exists (HTTP 400)
Conflicts(i) == lastCall.tagKinds[i] # "create_error" /\ lastCall.tagsReq[i] \in TagsAt(i)

\* create_tag has an id for position i: created, or found after the conflict
Resolves(i) ==
    \/ lastCall.tagKinds[i] = "ok"
    \/ lastCall.tagKinds[i] = "lookup_error" /\ lastCall.tagsReq[i] \notin TagsAt(i)

\* the ids of the positions that satisfy Keep, in request order
IdsOf(Keep(_)) ==
    LET idx == SelectSeq([i \in TagPositions |-> i], Keep)
    IN  [j \in 1..Len(idx) |-> TagId(lastCall.tagsReq[idx[j]])]

TagIdsSent == {lastCall.tags[i] : i \in 1..Len(lastCall.tags)}

(* C9 as claimed: when the site rejects the creation of a tag because a tag
   of that name exists, create_tag returns the existing tag's id, so the
   tag is attached to the post, and publish_post does not fail. *)
C9_ConflictAlwaysReusesTag ==
    (lastCall.adapter = "rest")
        => /\ \A i \in TagPositions :
                Conflicts(i) => TagId(lastCall.tagsReq[i]) \in TagIdsSent
           /\ lastCall.issued
           /\ lastCall.createOk => lastCall.result # PyNone

(* C9, amended: when the site rejects the creation of a tag because a tag
   of that name exists and the name lookup that follows answers, create_tag
   returns the existing tag's id, the tag is attached to the post, and
   publish_post does not fail; when the lookup fails the tag is skipped. *)
C9_ConflictReusesTagWhenLookupAnswers ==
    (lastCall.adapter = "rest")
        => /\ \A i \in TagPositions :
                (Conflicts(i) /\ lastCall.tagKinds[i] = "ok")
                    => TagId(lastCall.tagsReq[i]) \in TagIdsSent
           /\ \A i \in TagPositions :
                (Conflicts(i) /\ lastCall.tagKinds[i] = "lookup_error"
                    /\ \A j \in TagPositions : j # i => lastCall.tagsReq[j] # lastCall.tagsReq[i])
                    => TagId(lastCall.tagsReq[i]) \notin TagIdsSent
           /\ lastCall.issued
           /\ lastCall.createOk => lastCall.result # PyNone

C9_Witness ==
    /\ lastCall.adapter = "rest"
    /\ lastCall.tagsBefore = {"seo"}
    /\ lastCall.tagsReq = <<"seo">>
    /\ lastCall.tagKinds = <<"ok">>
    /\ lastCall.tags = <<5>>
    /\ lastCall.result # PyNone

\* as claimed, a failing tag: its creation conflicts, or neither its
\* creation nor a lookup gives an id
FailsAsClaimed(i) == Conflicts(i) \/ lastCall.tagKinds[i] = "create_error"

KeptAsClaimed(i) == ~FailsAsClaimed(i)

(* C10 as claimed: for every subset of tags whose creation conflicts or
   whose create and lookup both fail, the post is still created and its
   tags field holds exactly the ids of all the other tags, in request order. *)
C10_TagsFieldIsTheOtherTags ==
    (lastCall.adapter = "rest")
        => /\ lastCall.issued
           /\ lastCall.tags = IdsOf(KeptAsClaimed)

(* C10, amended: the post is still created and its tags field holds, in
   request order, exactly the ids of the tags that were created or were found
   by the lookup after a conflict; a tag is skipped only when its creation
   fails otherwise or when it conflicts and the lookup fails, and a skipped
   tag never removes or reorders another tag. *)
C10_TagsFieldIsTheResolvedTags ==
    (lastCall.adapter = "rest")
        => /\ lastCall.issued
           /\ lastCall.tags = IdsOf(Resolves)

C10_Witness ==
    /\ lastCall.adapter = "rest"
    /\ lastCall.tagsBefore = {}
    /\ lastCall.tagsReq = <<"seo", "ai">>
    /\ lastCall.tagKinds = <<"create_error", "ok">>
    /\ lastCall.tags = <<6>>
    /\ lastCall.issued

----------------------------------------------------------------------------
(* Properties of publish_post: failures of the site (SpecAdapter)          *)

\* the request of get_category_id failed (no answer, another status, bad body)
LookupFailed == lastCall.category_name # "" /\ ~lastCall.lookupOk

\* the request of get_all_categories failed
FetchFailed == lastCall.usedRandom /\ ~lastCall.allOk

\* create_tag has no id for one of the tags
TagFailed == lastCall.adapter = "rest" /\ \E i \in TagPositions : ~Resolves(i)

CreateFailed == ~lastCall.createOk

(* C11 as claimed: publish_post of either adapter never raises and returns
   None for every failure of the site during category lookup, tag
   resolution or post creation; it returns a post id only when the
   create-post call succeeded. *)
C11_NoneForEveryFailure ==
    Called =>
        /\ ~lastCall.raised
        /\ (LookupFailed \/ FetchFailed \/ TagFailed \/ CreateFailed)
              => lastCall.result = PyNone
        /\ lastCall.result # PyNone => lastCall.createOk

(* C11, amended: publish_post of either adapter never raises; it returns
   None exactly when the create-post call fails, and a post id exactly when
   that call succeeded. A failure during category lookup or tag resolution
   is absorbed: the post is sent without that category or tag. *)
C11_NoneExactlyWhenCreateFails ==
    Called =>
        /\ ~lastCall.raised
        /\ CreateFailed <=> lastCall.result = PyNone
        /\ lastCall.issued

C11_Witness ==
    /\ lastCall.adapter = "rest"
    /\ LookupFailed
    /\ FetchFailed
    /\ TagFailed
    /\ lastCall.createOk
    /\ ~lastCall.raised
    /\ lastCall.result = <<"4", "2">>

----------------------------------------------------------------------------
(* Properties of test_connection (Spec)                                    *)

(* C12: test_connection of either adapter never raises: for bad
   credentials, an unreachable host, any non-200 status and a 200 answer
   whose body cannot be parsed it returns a boolean, and it returns true
   only when the authenticated call succeeded (REST: HTTP 200 on
   /users/me; XML-RPC: the getTerms call returned). *)
C12_TestConnectionNeverRaises ==
    factory.called =>
        /\ factory.rest # "test_raises"
        /\ factory.rest = "test_true" => factory.restResp = "200"
        /\ factory.rpc = "test_true" => factory.rpcCall = "ok"

----------------------------------------------------------------------------
(* Properties of the REST create-post call (SpecAdapter)                   *)

(* C13: REST publish_post returns a post id exactly when the POST to the
   posts collection answers HTTP 201 (with the JSON of the post): the id is
   the answer's numeric id converted to a string, and every other status,
   200 included, yields None. *)
C13_PostIdExactlyOn201 ==
    (lastCall.adapter = "rest") =>
        /\ lastCall.create = "201" => lastCall.result = PyStr(lastCall.postId)
        /\ lastCall.create \in {"200", "401", "500"} => lastCall.result = PyNone
        /\ lastCall.result # PyNone => lastCall.create = "201"

C13_Witness ==
    /\ lastCall.adapter = "rest"
    /\ lastCall.create = "201"
    /\ lastCall.postId = 42
    /\ lastCall.result = <<"4", "2">>
    /\ lastCall.categories # <<>>

----------------------------------------------------------------------------
(* Properties of the forced modes of create_publisher (Spec)               *)

ForcedCalled(kind) ==
    /\ factory.called
    /\ config.enabled
    /\ config.complete
    /\ config.api_method = kind

\* what the constructor of the adapter of `kind` did
CtorOf(kind) == IF kind = "rest" THEN factory.rest ELSE factory.rpc

NoConnectivityCheck == factory.restResp = "not_run" /\ factory.rpcCall = "not_run"

(* C14 as claimed: create_publisher in mode 'rest' (resp. 'xmlrpc') returns
   the REST (resp. XML-RPC) adapter unconditionally and performs no
   connectivity check. *)
C14_ForcedModeAlwaysReturnsAdapter ==
    \A kind \in {"rest", "xmlrpc"} :
        ForcedCalled(kind) => (factory.result = kind /\ NoConnectivityCheck)

(* C14, amended: create_publisher in mode 'rest' (resp. 'xmlrpc') calls no
   test_connection and returns the REST (resp. XML-RPC) adapter whenever the
   adapter's constructor returns, whatever the site would answer; when the
   constructor raises, it returns None and does not raise. *)
C14_ForcedModeReturnsAdapterWhenBuilt ==
    \A kind \in {"rest", "xmlrpc"} :
        ForcedCalled(kind) =>
            /\ NoConnectivityCheck
            /\ ~factory.raised
            /\ CtorOf(kind) = "ctor_ok" => factory.result = kind
            /\ CtorOf(kind) = "ctor_raises" => factory.result = "none"

\* the adapter is returned for a site that run's own test_connection, made
\* next, finds unreachable
C14_Witness ==
    /\ ForcedCalled("rest")
    /\ factory.rest = "ctor_ok"
    /\ factory.result = "rest"
    /\ NoConnectivityCheck
    /\ publisher = NoPublisher

----------------------------------------------------------------------------
(* The REST adapter's category list on sites of every size                 *)

\* the sizes looked at: small sites and sites around the page size
SiteSizes == (0..2) \cup ((PER_PAGE - 1)..(PER_PAGE + MaxExtraCats))

\* the call of get_all_categories or get_random_category_id whose result the
\* caller has not yet taken
ListCall == "rest.get_all_categories"

PageInit ==
    /\ UrlIdle
    /\ GenIdle
    /\ runPc = "adapter"
    /\ config = [enabled |-> FALSE]
    /\ factory = NotCalled
    /\ restHits = {}
    /\ publisher = [kind |-> "rest", default_category |-> "", default_status |-> "draft"]
    /\ \E n \in SiteSizes : remoteCats = 1..n
    /\ remoteTags = {}
    /\ lastCall = NoCall

\* get_all_categories(), and get_random_category_id() on the same answer
RESTGetAllCategories ==
    /\ lastCall = NoCall
    /\ \E kind \in HttpKinds, rnd \in 0..(PER_PAGE + MaxExtraCats - 1) :
         LET categories == REST_get_all_categories(kind, remoteCats)
         IN  /\ rnd = 0 \/ (kind = "ok" /\ rnd < Cardinality(remoteCats))
             /\ lastCall' = [adapter |-> ListCall,
                             kind |-> kind,
                             cats |-> remoteCats,
                             returned |-> {categories[i].id : i \in 1..Len(categories)},
                             length |-> Len(categories),
                             random |-> REST_get_random_category_id(kind, remoteCats, rnd)]
    /\ restHits' = restHits \cup {"categories"}
    /\ UNCHANGED <<remoteCats, remoteTags, runPc, config, factory, publisher, urlVars, genVars, batchVars>>

PageNext == RESTGetAllCategories \/ TakeResult

SpecPage == PageInit /\ [][PageNext]_vars

(* C15 as claimed: REST get_all_categories returns the full category list:
   every category of the site is in the returned sequence, and so eligible
   for the random fallback, for every size of the site's category set. *)
C15_ReturnsEveryCategory ==
    (lastCall.adapter = ListCall /\ lastCall.kind = "ok")
        => lastCall.returned = lastCall.cats

(* C15, amended: when the request succeeds, get_all_categories returns
   every category of a site that has at most 100 of them; of a larger site
   it returns 100 categories only, and the random fallback never chooses one
   of the others. When the request fails it returns the empty sequence. *)
C15_ReturnsFirstPageOnly ==
    (lastCall.adapter = ListCall) =>
        /\ lastCall.returned \subseteq lastCall.cats
        /\ (lastCall.kind = "ok" /\ Cardinality(lastCall.cats) <= PER_PAGE)
              => lastCall.returned = lastCall.cats
        /\ (lastCall.kind = "ok" /\ Cardinality(lastCall.cats) > PER_PAGE)
              => lastCall.length = PER_PAGE
        /\ lastCall.kind # "ok" => lastCall.length = 0
        /\ lastCall.random # None => lastCall.random \in lastCall.returned

C15_Witness ==
    /\ lastCall.adapter = ListCall
    /\ lastCall.kind = "ok"
    /\ Cardinality(lastCall.cats) = PER_PAGE + 1
    /\ lastCall.length = PER_PAGE
    /\ lastCall.random = PER_PAGE

----------------------------------------------------------------------------
(* ArticleGenerator (generator.py): text helpers                           *)

\* str.lower() of one character, on the model's alphabet
LowerChar(c) ==
    CASE c = "A" -> "a"
      [] c = "B" -> "b"
      [] OTHER -> c

\* str.lower()
Lower(text) == [i \in 1..Len(text) |-> LowerChar(text[i])]

\* word in text
Contains(text, word) ==
    \E i \in 1..(Len(text) - Len(word) + 1) : SubSeq(text, i, i + Len(word) - 1) = word

\* str.lstrip(chars)
RECURSIVE LStrip(_, _)
LStrip(text, chars) ==
    IF Len(text) > 0 /\ Head(text) \in chars THEN LStrip(Tail(text), chars) ELSE text

\* str.strip()
Strip(text) == RStrip(LStrip(text, {" "}), " ")

\* the characters of lstrip('0123456789.、 ') that the model's alphabet has
ENUMERATION_CHARS == {"0", "1", "2", "3", "4", "5", "6", "7", "8", "9", ".", " "}

\* a slip: a text is only rejected when it is a forbidden word itself
check_forbidden_words_WholeText(words, text) ==
    \E j \in 1..Len(words) : Lower(text) = Lower(words[j])

\* a slip: the words are compared without folding the case
check_forbidden_words_CaseSensitive(words, text) ==
    \E i \in 1..Len(words) : Contains(text, words[i])

\* ArticleGenerator._check_forbidden_words
check_forbidden_words(words, text) ==
    /\ words # <<>>
    /\ \E i \in 1..Len(words) : Contains(Lower(text), Lower(words[i]))

----------------------------------------------------------------------------
(* ArticleGenerator.generate_titles                                        *)

\* the lines an answer of the LLM is made of
TitleLines ==
    { <<"1", ".", " ", "A", "b">>,      \* '1. Ab'
      <<"b">>,
      <<" ", "a">>,
      <<"1", ".">>,                      \* nothing but the numbering
      <<" ">> }

\* an answer has up to MaxLines lines
MaxLines == 2

\* content.split('\n') of the answers
TitleResponses == UNION {[1..k -> TitleLines] : k \in 0..MaxLines}

\* the configured forbidden_words
ForbiddenLists == {<<>>, << <<"a", "B">> >>, << <<"B">> >>}

\* generate_titles(keyword, n): the orchestrator passes title_per_keyword
MaxTitles == 2

\* max_retries: int = 3
TITLES_MAX_RETRIES == 3

\* [line.strip() for line in content.split('\n') if line.strip()]
NonEmptyLines(lines) ==
    LET stripped == [i \in 1..Len(lines) |-> Strip(lines[i])]
    IN  SelectSeq(stripped, LAMBDA l : l # <<>>)

\* the loop "清理可能的编号": cleaned_titles of one answer
CleanTitles(words, lines) ==
    LET titles == NonEmptyLines(lines)
        unnumbered == [i \in 1..Len(titles) |-> LStrip(titles[i], ENUMERATION_CHARS)]
    IN  SelectSeq(unnumbered, LAMBDA t : t # <<>> /\ ~check_forbidden_words(words, t))

Range(seq) == {seq[i] : i \in 1..Len(seq)}

\* a slip: the `except` is inside the retry loop, so the next iteration follows
llm_error_ends_call_Retry(attempt, max_retries) == attempt + 1 >= max_retries

\* the try block encloses the whole retry loop of generate_titles and of
\* generate_article: an exception of an iteration leaves the loop
llm_error_ends_call(attempt, max_retries) == TRUE

TitlesInit ==
    /\ forbidden_words \in ForbiddenLists
    /\ \E n \in 0..MaxTitles :
         titleCall = [pc |-> "loop", n |-> n, attempt |-> 0, cleaned_titles |-> <<>>,
                      earlier |-> {}, exhausted |-> FALSE, error |-> FALSE,
                      result |-> <<>>]
    /\ articleCall = NoGenCall
    /\ picsum = NoGenCall

\* one iteration of `for attempt in range(max_retries)` whose request is
\* answered, up to the return that ends it or follows the last iteration.
\* earlier: the clean titles of the iterations before this one
GenerateTitlesAttempt ==
    /\ titleCall.pc = "loop"
    /\ titleCall.attempt < TITLES_MAX_RETRIES
    /\ \E lines \in TitleResponses :
         LET cleaned_titles == CleanTitles(forbidden_words, lines)
             enough == Len(cleaned_titles) >= titleCall.n
             last == titleCall.attempt + 1 = TITLES_MAX_RETRIES
         IN  titleCall' =
               [titleCall EXCEPT
                  !.attempt = @ + 1,
                  !.cleaned_titles = cleaned_titles,
                  !.earlier = IF enough \/ last THEN @ ELSE @ \cup Range(cleaned_titles),
                  !.pc = IF enough \/ last THEN "done" ELSE "loop",
                  !.exhausted = ~enough /\ last,
                  !.result = IF enough THEN SubSeq(cleaned_titles, 1, titleCall.n)
                             ELSE IF last THEN cleaned_titles ELSE <<>>]
    /\ UNCHANGED <<forbidden_words, articleCall, picsum, urlVars, runVars, siteVars, batchVars>>

\* the request raises, or the answer has no content: `except Exception` returns []
GenerateTitlesRaises ==
    /\ titleCall.pc = "loop"
    /\ titleCall.attempt < TITLES_MAX_RETRIES
    /\ titleCall' =
          [titleCall EXCEPT
             !.attempt = @ + 1,
             !.error = TRUE,
             !.pc = IF llm_error_ends_call(titleCall.attempt, TITLES_MAX_RETRIES)
                    THEN "done" ELSE "loop",
             !.result = <<>>]
    /\ UNCHANGED <<forbidden_words, articleCall, picsum, urlVars, runVars, siteVars, batchVars>>

TitlesNext == GenerateTitlesAttempt \/ GenerateTitlesRaises

InitTitles ==
    /\ UrlIdle
    /\ runPc = "generator"
    /\ config = [enabled |-> FALSE]
    /\ factory = NotCalled
    /\ publisher = NoPublisher
    /\ restHits = {}
    /\ SiteInit
    /\ BatchIdle
    /\ TitlesInit

SpecTitles == InitTitles /\ [][TitlesNext]_vars

\* a case-insensitive substring match of title with a word of the list
MatchesForbidden(title) ==
    \E i \in 1..Len(forbidden_words) :
        \E from \in 1..Len(title), to \in 1..Len(title) :
            /\ to - from + 1 = Len(forbidden_words[i])
            /\ \A k \in from..to :
                  LowerChar(title[k]) = LowerChar(forbidden_words[i][k - from + 1])

(* C16: the list generate_titles(keyword, n) returns has at most n titles
   and no title with a case-insensitive substring match to a forbidden
   word, whatever the LLM answers. *)
C16_TitlesAtMostNAndClean ==
    (titleCall.pc = "done") =>
        /\ Len(titleCall.result) <= titleCall.n
        /\ \A i \in 1..Len(titleCall.result) : ~MatchesForbidden(titleCall.result[i])

C16_Witness ==
    /\ titleCall.pc = "done"
    /\ titleCall.n = 2
    /\ forbidden_words = << <<"a", "B">> >>
    /\ titleCall.attempt = 2
    /\ titleCall.result = << <<"b">>, <<"a">> >>

(* C17: when every attempt yields fewer than n clean titles, generate_titles
   returns the clean titles accumulated over the attempts: a clean title of
   an earlier attempt is in the returned list (up to n titles). *)
C17_ExhaustionReturnsAccumulated ==
    (titleCall.pc = "done" /\ titleCall.exhausted) =>
        \/ titleCall.earlier \subseteq Range(titleCall.result)
        \/ Len(titleCall.result) = titleCall.n

----------------------------------------------------------------------------
(* ArticleGenerator.generate_article and AutoPost.generate_and_save_article *)

\* max_retries: int = 2; generate_and_save_article passes none
ARTICLE_MAX_RETRIES == 2

\* config.get('image_count', 3) is between 0 and MaxImageCount
MaxImageCount == 3

ImageModes == {"search", "generate", "mixed"}

\* the answers of the LLM to the article request, after .strip() and
\* _clean_html_structure: '' is an answer with nothing in it
\* an image tag with a placeholder, <img src="[IMAGE_PLACEHOLDER_1]" alt="", as
\* one element of the text
IMG_PLACEHOLDER == "<img src=\"[IMAGE_PLACEHOLDER_1]\" alt=\"\""

ArticleContents == { <<>>, <<"a">>, <<"A", "b">>, <<"b", " ", "a">>, <<"c", IMG_PLACEHOLDER>> }

\* the URLs of the images found: one without and one with the letter b
URL_PLAIN == <<"u">>

URL_WITH_B == <<"u", "b">>

\* new_tag = f'<img src="{image_urls[i]}" alt="{alt_text}"'
ImgChars(url) == <<"<img src=\"">> \o url \o <<"\" alt=\"\"">>

\* _replace_image_placeholders(content, image_urls): the i-th placeholder gets
\* the i-th URL, the placeholders beyond the URLs stay
RECURSIVE replace_image_placeholders(_, _)
replace_image_placeholders(content, image_urls) ==
    IF content = <<>> THEN <<>>
    ELSE IF Head(content) = IMG_PLACEHOLDER /\ image_urls # <<>>
    THEN ImgChars(Head(image_urls))
            \o replace_image_placeholders(Tail(content), Tail(image_urls))
    ELSE <<Head(content)>> \o replace_image_placeholders(Tail(content), image_urls)

\* generate_article after the forbidden-word check passed: the value returned
generate_article_result(article_content, fetch_real_images, image_urls) ==
    IF fetch_real_images /\ image_urls # <<>>
    THEN replace_image_placeholders(article_content, image_urls)
    ELSE article_content

\* generate_article, "根据图片模式获取图片": the count search_images is called
\* with and the count generate_image_prompts is called with (0: not called)
ImageRequests(fetch_real_images, image_mode, image_count) ==
    IF fetch_real_images /\ image_count > 0
    THEN CASE image_mode = "search" -> [search |-> image_count, generate |-> 0]
           [] image_mode = "generate" -> [search |-> 0, generate |-> image_count]
           [] image_mode = "mixed" ->
                LET search_count == image_count \div 2
                    generate_count == image_count - search_count
                IN  [search |-> search_count, generate |-> generate_count]
           [] OTHER -> [search |-> 0, generate |-> 0]
    ELSE [search |-> 0, generate |-> 0]

\* a slip: an empty article is saved and published like any other
generate_and_save_article_NoEmptyCheck(article_content, saveOk, hasPublisher) ==
    IF ~saveOk THEN [saved |-> FALSE, publish |-> FALSE, returned |-> FALSE]
    ELSE [saved |-> TRUE, publish |-> hasPublisher, returned |-> TRUE]

\* generate_and_save_article after generate_article returned: whether the file
\* is written, whether publish_to_wordpress is called, and the value returned
generate_and_save_article(article_content, saveOk, hasPublisher) ==
    IF article_content = <<>> THEN [saved |-> FALSE, publish |-> FALSE, returned |-> FALSE]
    ELSE IF ~saveOk THEN [saved |-> FALSE, publish |-> FALSE, returned |-> FALSE]
    ELSE [saved |-> TRUE, publish |-> hasPublisher, returned |-> TRUE]

\* the wordpress section of a run that publishes with the defaults
ArticleWpConfig ==
    [enabled |-> TRUE, complete |-> TRUE, api_method |-> "rest",
     category |-> ABSENT, status |-> ABSENT]

\* generate_and_save_article(keyword, title, index, total) has been called
ArticleInit ==
    /\ forbidden_words \in ForbiddenLists
    /\ titleCall = NoGenCall
    /\ picsum = NoGenCall
    /\ BatchIdle
    /\ \E fetch \in BOOLEAN, mode \in ImageModes, count \in 0..MaxImageCount :
         articleCall = [pc |-> "images", fetch_real_images |-> fetch, image_mode |-> mode,
                        image_count |-> count, search_count |-> 0, generate_count |-> 0,
                        attempt |-> 0, requests |-> 0, rejected |-> 0, error |-> FALSE,
                        image_urls |-> <<>>, content |-> <<>>, article |-> <<>>,
                        saved |-> 0, returned |-> FALSE, success_count |-> 0]
    /\ runPc = "batch"
    /\ config = ArticleWpConfig
    /\ factory = NotCalled
    /\ publisher \in {NoPublisher, Constructed("rest", ArticleWpConfig)}
    /\ restHits = {}
    /\ SiteInit

\* generate_article up to its retry loop: the images are requested
GenerateArticleImages ==
    /\ articleCall.pc = "images"
    /\ LET r == ImageRequests(articleCall.fetch_real_images, articleCall.image_mode,
                              articleCall.image_count)
       IN  \* search_images gives between 1 and search_count URLs,
           \* generate_image_with_dalle one URL or None for each prompt
           \E found \in 0..(r.search + r.generate), withB \in BOOLEAN :
             /\ r.search > 0 => found >= 1
             /\ withB => found >= 1
             /\ articleCall' =
                   [articleCall EXCEPT
                      !.pc = "loop",
                      !.search_count = r.search,
                      !.generate_count = r.generate,
                      !.image_urls = [j \in 1..found |->
                                        IF withB /\ j = 1 THEN URL_WITH_B ELSE URL_PLAIN]]
    /\ UNCHANGED <<forbidden_words, titleCall, picsum, urlVars, runVars, siteVars, batchVars>>

\* one iteration of `for attempt in range(max_retries)` whose request is answered
GenerateArticleAttempt ==
    /\ articleCall.pc = "loop"
    /\ articleCall.attempt < ARTICLE_MAX_RETRIES
    /\ \E article_content \in ArticleContents :
         LET forbidden == check_forbidden_words(forbidden_words, article_content)
             last == articleCall.attempt + 1 = ARTICLE_MAX_RETRIES
         IN  articleCall' =
               [articleCall EXCEPT
                  !.attempt = @ + 1,
                  !.requests = @ + 1,
                  !.rejected = IF forbidden THEN @ + 1 ELSE @,
                  !.pc = IF forbidden /\ ~last THEN "loop" ELSE "generated",
                  \* image_urls is a local of generate_article: gone on return
                  !.image_urls = IF forbidden /\ ~last THEN @ ELSE <<>>,
                  !.content = IF forbidden THEN <<>> ELSE article_content,
                  !.article = IF forbidden THEN <<>>
                              ELSE generate_article_result(article_content,
                                                           articleCall.fetch_real_images,
                                                           articleCall.image_urls)]
    /\ UNCHANGED <<forbidden_words, titleCall, picsum, urlVars, runVars, siteVars, batchVars>>

\* the request raises: `except Exception` returns ''
GenerateArticleRaises ==
    /\ articleCall.pc = "loop"
    /\ articleCall.attempt < ARTICLE_MAX_RETRIES
    /\ articleCall' =
          [articleCall EXCEPT
             !.attempt = @ + 1, !.requests = @ + 1,
             !.error = TRUE,
             !.image_urls = IF llm_error_ends_call(articleCall.attempt, ARTICLE_MAX_RETRIES)
                            THEN <<>> ELSE @,
             !.content = <<>>,
             !.pc = IF llm_error_ends_call(articleCall.attempt, ARTICLE_MAX_RETRIES)
                    THEN "generated" ELSE "loop",
             !.article = <<>>]
    /\ UNCHANGED <<forbidden_words, titleCall, picsum, urlVars, runVars, siteVars, batchVars>>

\* the rest of generate_and_save_article, and process_keywords counting it
SaveAndPublish ==
    /\ articleCall.pc = "generated"
    /\ lastCall = NoCall
    /\ \E saveOk \in BOOLEAN, keyword \in Keywords :
         LET step == generate_and_save_article(articleCall.article, saveOk,
                                               publisher.kind # "none")
             args == PublishArgs(config, keyword)
         IN  /\ articleCall' =
                   [articleCall EXCEPT
                      !.pc = "done",
                      !.saved = IF step.saved THEN @ + 1 ELSE @,
                      !.returned = step.returned,
                      !.success_count = IF step.returned THEN @ + 1 ELSE @]
             /\ IF step.publish
                THEN \E env \in CallEnvs(args.tags) : Publish(args, env)
                ELSE UNCHANGED <<lastCall, remoteTags, restHits, remoteCats>>
    /\ UNCHANGED <<forbidden_words, titleCall, picsum, urlVars, batchVars>>
    /\ UNCHANGED <<runPc, config, factory, publisher>>

ArticleNext ==
    GenerateArticleImages \/ GenerateArticleAttempt \/ GenerateArticleRaises \/ SaveAndPublish

InitArticle == UrlIdle /\ ArticleInit

SpecArticle == InitArticle /\ [][ArticleNext]_vars

(* C18: generate_article issues at most max_retries LLM requests; if every
   attempt's cleaned output contains a forbidden word it returns the empty
   string; and for an empty result the orchestrator writes no local file,
   calls no publish_post and does not count the article as a success. *)
C18_EmptyArticleIsTotalFailure ==
    /\ articleCall.requests <= ARTICLE_MAX_RETRIES
    /\ (articleCall.pc \in {"generated", "done"}
          /\ articleCall.rejected = articleCall.requests)
            => (articleCall.requests = ARTICLE_MAX_RETRIES /\ articleCall.article = <<>>)
    /\ (articleCall.pc = "done" /\ articleCall.article = <<>>)
            => /\ articleCall.saved = 0
               /\ lastCall = NoCall
               /\ restHits = {}
               /\ ~articleCall.returned
               /\ articleCall.success_count = 0

C18_Witness ==
    /\ articleCall.pc = "done"
    /\ publisher.kind = "rest"
    /\ articleCall.requests = ARTICLE_MAX_RETRIES
    /\ articleCall.rejected = ARTICLE_MAX_RETRIES
    /\ articleCall.article = <<>>
    /\ articleCall.saved = 0
    /\ lastCall = NoCall

(* C20: generate_article in 'mixed' image mode with image_count = c requests
   search_count images by search and generate_count by generation with
   search_count + generate_count = c, and when c is odd the remainder goes
   to the search half (search_count = generate_count + 1). *)
C20_MixedRemainderGoesToSearch ==
    (/\ articleCall.pc \in {"loop", "generated", "done"}
     /\ articleCall.fetch_real_images
     /\ articleCall.image_mode = "mixed"
     /\ articleCall.image_count > 0)
        => /\ articleCall.search_count + articleCall.generate_count = articleCall.image_count
           /\ articleCall.image_count % 2 = 1
                 => articleCall.search_count = articleCall.generate_count + 1

----------------------------------------------------------------------------
(* ArticleGenerator._search_unsplash_smart without a key, _search_picsum   *)

\* random.randint(1, 1000)
PICSUM_FIRST_ID == 1

PICSUM_LAST_ID == 1000

PicsumIds == PICSUM_FIRST_ID..PICSUM_LAST_ID

\* the counts asked for: a few images, and counts at the size of the id range
MaxSmallCount == 2

ImageCounts == (0..MaxSmallCount) \cup {PICSUM_LAST_ID, PICSUM_LAST_ID + 1}

\* f"https://picsum.photos/id/{img_id}/800/600"
PicsumUrl(img_id) == <<"https://picsum.photos/id/", PyStr(img_id), "/800/600">>

\* the id a placeholder URL names
PlaceholderId(url) == PyInt(url[2])

\* The values random.randint gives next. The loop treats all unused ids
\* alike and all used ids alike, so the random source is represented by the
\* lowest unused id, the highest id for the first draw, and the ids used
\* first and last.
RandIntSample(used_ids, images) ==
    LET unused == PicsumIds \ used_ids
    IN  (IF unused = {} THEN {} ELSE {CHOOSE x \in unused : \A y \in unused : x <= y})
        \cup (IF used_ids = {} THEN {PICSUM_LAST_ID}
              ELSE {PlaceholderId(images[1]), PlaceholderId(images[Len(images)])})

\* a slip: the drawn id is not compared with the ids used so far
picsum_accepts_Any(img_id, used_ids) == img_id \in PicsumIds

\* the exit condition of `while img_id in used_ids`
picsum_accepts(img_id, used_ids) == img_id \notin used_ids

PicsumInit ==
    /\ forbidden_words = <<>>
    /\ titleCall = NoGenCall
    /\ articleCall = NoGenCall
    /\ \E count \in ImageCounts :
         picsum = [pc |-> "call", count |-> count, api_key |-> "", i |-> 0,
                   img_id |-> None, used_ids |-> {}, images |-> <<>>]

\* _search_unsplash_smart(keywords, count) with UNSPLASH_ACCESS_KEY unset:
\* _search_picsum("", count) starts
SearchUnsplashSmart ==
    /\ picsum.pc = "call"
    /\ picsum.api_key = ""
    /\ picsum' = [picsum EXCEPT !.pc = "loop"]
    /\ UNCHANGED <<forbidden_words, titleCall, articleCall, urlVars, runVars, siteVars, batchVars>>

\* an iteration of `for i in range(count)` ends: the id drawn is new
PicsumAppend ==
    /\ picsum.pc = "loop"
    /\ picsum.i < picsum.count
    /\ \E img_id \in RandIntSample(picsum.used_ids, picsum.images) :
         /\ picsum_accepts(img_id, picsum.used_ids)
         /\ picsum' = [picsum EXCEPT !.i = @ + 1,
                                     !.img_id = img_id,
                                     !.used_ids = @ \cup {img_id},
                                     !.images = Append(@, PicsumUrl(img_id))]
    /\ UNCHANGED <<forbidden_words, titleCall, articleCall, urlVars, runVars, siteVars, batchVars>>

\* `while img_id in used_ids`: the id drawn is a used one, another is drawn
PicsumRedraw ==
    /\ picsum.pc = "loop"
    /\ picsum.i < picsum.count
    /\ \E img_id \in RandIntSample(picsum.used_ids, picsum.images) :
         /\ ~picsum_accepts(img_id, picsum.used_ids)
         /\ picsum' = [picsum EXCEPT !.img_id = img_id]
    /\ UNCHANGED <<forbidden_words, titleCall, articleCall, urlVars, runVars, siteVars, batchVars>>

\* return images
PicsumReturn ==
    /\ picsum.pc = "loop"
    /\ picsum.i = picsum.count
    /\ picsum' = [picsum EXCEPT !.pc = "done"]
    /\ UNCHANGED <<forbidden_words, titleCall, articleCall, urlVars, runVars, siteVars, batchVars>>

PicsumNext == SearchUnsplashSmart \/ PicsumAppend \/ PicsumRedraw \/ PicsumReturn

InitPicsum ==
    /\ UrlIdle
    /\ runPc = "generator"
    /\ config = [enabled |-> FALSE]
    /\ factory = NotCalled
    /\ publisher = NoPublisher
    /\ restHits = {}
    /\ SiteInit
    /\ BatchIdle
    /\ PicsumInit

\* The call keeps running: each step is taken when it can be. random.randint
\* gives every id of the range again and again, so an unused id is drawn in
\* the end whenever there is one (strong fairness).
SpecPicsum ==
    /\ InitPicsum
    /\ [][PicsumNext]_vars
    /\ WF_vars(SearchUnsplashSmart)
    /\ SF_vars(PicsumAppend)
    /\ WF_vars(PicsumRedraw)
    /\ WF_vars(PicsumReturn)

\* the result has exactly count URLs, each with a placeholder id of the range,
\* and no id twice
PicsumResultOk ==
    /\ Len(picsum.images) = picsum.count
    /\ \A j \in 1..Len(picsum.images) : PlaceholderId(picsum.images[j]) \in PicsumIds
    /\ Cardinality({PlaceholderId(picsum.images[j]) : j \in 1..Len(picsum.images)})
          = Len(picsum.images)

(* C19 as claimed: for every k >= 0, requesting k images from a search
   provider that has no configured key terminates and yields exactly k URLs,
   each with a placeholder id in 1..1000, and no id twice. *)
C19_EveryCountTerminates ==
    /\ [](picsum.pc = "done" => PicsumResultOk)
    /\ <>(picsum.pc = "done")

(* C19, amended: for every k from 0 to 1000 the request terminates and
   yields exactly k URLs, each with a placeholder id in 1..1000 and no id
   twice; for k above 1000 the request never returns. *)
C19_CountsUpToRangeTerminate ==
    /\ [](picsum.pc = "done" => PicsumResultOk)
    /\ (picsum.count <= PICSUM_LAST_ID) ~> (picsum.pc = "done")
    /\ [](picsum.count > PICSUM_LAST_ID => picsum.pc # "done")

C19_Witness ==
    /\ picsum.pc = "done"
    /\ picsum.count = PICSUM_LAST_ID
    /\ picsum.img_id = PICSUM_LAST_ID
    /\ Len(picsum.images) = PICSUM_LAST_ID
    /\ picsum.used_ids = PicsumIds

----------------------------------------------------------------------------
(* generator.py: _replace_image_placeholders.  An article is a sequence of *)
(* pieces: a stretch of text or one <img ...> tag.  A tag is a placeholder *)
(* when its src is [IMAGE_PLACEHOLDER...].                                 *)

MaxPieces == 3

MaxUrls == 2

PlaceholderSrcs == {"[IMAGE_PLACEHOLDER_1]", "[IMAGE_PLACEHOLDER_2]"}

ImageUrls == {"https://img/1", "https://img/2"}

AltTexts == {"a", "b"}

TextPiece == [kind |-> "text", src |-> "", alt |-> ""]

\* <img src="{src}" alt="{alt}"
ImgTag(src, alt) == [kind |-> "img", src |-> src, alt |-> alt]

Pieces ==
    {TextPiece} \cup {ImgTag(src, alt) : src \in PlaceholderSrcs, alt \in AltTexts}
                \cup {ImgTag("https://img/1", "a")}

SeqsUpTo(S, n) == UNION {[1..k -> S] : k \in 0..n}

\* the pattern <img\s+src="?\[IMAGE_PLACEHOLDER[^\]]*\]"?\s+alt="([^"]*)" matches
IsPlaceholder(piece) == piece.kind = "img" /\ piece.src \in PlaceholderSrcs

\* list(re.finditer(pattern, content)): the matched tags, in document order
FindPlaceholders(content) == SelectSeq(content, IsPlaceholder)

\* the positions of the placeholders of a document, in document order
PlaceholderPositions(content) ==
    SelectSeq([j \in 1..Len(content) |-> j], LAMBDA j : IsPlaceholder(content[j]))

\* content.replace(old, new) without a count: every occurrence
str_replace_Every(content, old, new) ==
    [j \in 1..Len(content) |-> IF content[j] = old THEN new ELSE content[j]]

\* content.replace(old, new, 1): the first occurrence of the text, if any
str_replace(content, old, new) ==
    LET hits == {j \in 1..Len(content) : content[j] = old}
    IN  IF hits = {} THEN content
        ELSE LET first == CHOOSE j \in hits : \A k \in hits : j <= k
             IN  [content EXCEPT ![first] = new]

\* _replace_image_placeholders(content, image_urls) has been called
ReplaceInit ==
    /\ \E content \in SeqsUpTo(Pieces, MaxPieces), image_urls \in SeqsUpTo(ImageUrls, MaxUrls) :
         replaceCall = [pc |-> "find", original |-> content, content |-> content,
                        image_urls |-> image_urls, matches |-> <<>>, i |-> 0]
    /\ searchCall = NoGenCall
    /\ batch = NoGenCall
    /\ rpcAdapter = NoGenCall

\* matches = list(re.finditer(pattern, content))
ReplaceFind ==
    /\ replaceCall.pc = "find"
    /\ replaceCall' = [replaceCall EXCEPT !.pc = "loop",
                                          !.matches = FindPlaceholders(replaceCall.content)]
    /\ UNCHANGED <<searchCall, batch, rpcAdapter, urlVars, runVars, siteVars, genVars>>

\* one iteration of for i, match in enumerate(matches)
ReplaceStep ==
    /\ replaceCall.pc = "loop"
    /\ replaceCall.i < Len(replaceCall.matches)
    /\ LET i == replaceCall.i
           match == replaceCall.matches[i + 1]
       IN  replaceCall' =
             [replaceCall EXCEPT
                !.i = i + 1,
                !.content = IF i < Len(replaceCall.image_urls)
                            THEN str_replace(replaceCall.content, match,
                                             ImgTag(replaceCall.image_urls[i + 1], match.alt))
                            ELSE replaceCall.content]
    /\ UNCHANGED <<searchCall, batch, rpcAdapter, urlVars, runVars, siteVars, genVars>>

\* return content
ReplaceReturn ==
    /\ replaceCall.pc = "loop"
    /\ replaceCall.i = Len(replaceCall.matches)
    /\ replaceCall' = [replaceCall EXCEPT !.pc = "done"]
    /\ UNCHANGED <<searchCall, batch, rpcAdapter, urlVars, runVars, siteVars, genVars>>

ReplaceNext == ReplaceFind \/ ReplaceStep \/ ReplaceReturn

InitReplace ==
    /\ UrlIdle
    /\ runPc = "generator"
    /\ config = [enabled |-> FALSE]
    /\ factory = NotCalled
    /\ publisher = NoPublisher
    /\ restHits = {}
    /\ SiteInit
    /\ forbidden_words = <<>>
    /\ titleCall = NoGenCall
    /\ articleCall = NoGenCall
    /\ picsum = NoGenCall
    /\ ReplaceInit

SpecReplace == InitReplace /\ [][ReplaceNext]_vars

(* C21: when _replace_image_placeholders returns, the i-th placeholder of the
   document (in document order) carries the i-th URL and its own alt text for
   every i below min(m, u), every placeholder from position u on is as it was,
   also when several placeholders have the same text. *)
C21_PlaceholdersReplacedInOrder ==
    replaceCall.pc = "done" =>
        LET at == PlaceholderPositions(replaceCall.original)
            u == Len(replaceCall.image_urls)
        IN  /\ Len(replaceCall.content) = Len(replaceCall.original)
            /\ \A k \in 1..Len(at) :
                 replaceCall.content[at[k]] =
                    IF k <= u
                    THEN ImgTag(replaceCall.image_urls[k], replaceCall.original[at[k]].alt)
                    ELSE replaceCall.original[at[k]]

\* three placeholders, the first and the last with the same text, and two URLs
C21_Witness ==
    /\ replaceCall.pc = "done"
    /\ Len(replaceCall.matches) = 3
    /\ replaceCall.matches[1] = replaceCall.matches[3]
    /\ replaceCall.matches[1] # replaceCall.matches[2]
    /\ Len(replaceCall.image_urls) = 2
    /\ replaceCall.image_urls[1] # replaceCall.image_urls[2]
    /\ replaceCall.content[3] = replaceCall.original[3]

----------------------------------------------------------------------------
(* generator.py: search_images, generate_image_keywords and the            *)
(* _search_*_smart providers, with _search_picsum as the fallback          *)

MaxSearchCount == 2

MaxKeywords == 3

SearchEngines == {"picsum", "unsplash", "pexels", "pixabay", "other"}

KeyedEngines == {"unsplash", "pexels", "pixabay"}

SearchTitle == <<"t">>

\* the cleaned lines of the LLM's answer to generate_image_keywords
KeywordLines == [j \in 1..MaxKeywords |-> <<"k", PyStr(j)>>]

\* what one request to the provider's search endpoint does
SearchOutcomes == {"200_image", "200_empty", "error_status", "raises"}

\* seq[:n] for n >= 0
Prefix_Whole(seq, n) == seq

Prefix(seq, n) == SubSeq(seq, 1, IF n < Len(seq) THEN n ELSE Len(seq))

\* generate_image_keywords(title, count): the LLM raises, or answers `lines`
\* cleaned keyword lines
generate_image_keywords(title, count, raises, lines) ==
    IF raises THEN <<title>> ELSE Prefix(Prefix(KeywordLines, lines), count)

\* the URL the provider gives for a keyword
ProviderUrl(engine, keyword) == <<"https://", engine, "/">> \o keyword

\* a picsum.photos URL
IsPicsumUrl(url) == url[1] = "https://picsum.photos/id/"

\* _search_picsum(query, count) is entered
PicsumCall(count) ==
    [pc |-> "loop", count |-> count, api_key |-> "", i |-> 0,
     img_id |-> None, used_ids |-> {}, images |-> <<>>]

\* search_images(query, count, search_engine, use_smart_keywords=True) is called
SearchInit ==
    /\ forbidden_words = <<>>
    /\ titleCall = NoGenCall
    /\ articleCall = NoGenCall
    /\ picsum = NoGenCall
    /\ replaceCall = NoGenCall
    /\ batch = NoGenCall
    /\ rpcAdapter = NoGenCall
    /\ \E engine \in SearchEngines, count \in 0..MaxSearchCount, api_key \in {"", "key"} :
         searchCall = [pc |-> "call", search_engine |-> engine, count |-> count,
                       api_key |-> api_key, search_queries |-> <<SearchTitle>>,
                       keywords |-> <<>>, outcomes |-> <<>>, images |-> <<>>,
                       source |-> "none", raised |-> FALSE]

\* search_images up to the first request: the smart keywords, the dispatch on
\* the engine and the provider's check of its API key
SearchImages ==
    /\ searchCall.pc = "call"
    /\ \E raises \in BOOLEAN, lines \in 0..MaxKeywords :
         LET engine == searchCall.search_engine
             smart_keywords == generate_image_keywords(SearchTitle, searchCall.count,
                                                       raises, lines)
             search_queries == IF engine # "picsum" /\ smart_keywords # <<>>
                               THEN smart_keywords ELSE <<SearchTitle>>
         IN  /\ (engine = "picsum") => (~raises /\ lines = 0)
             /\ raises => lines = 0
             /\ IF engine \in KeyedEngines /\ searchCall.api_key # ""
                THEN /\ searchCall' = [searchCall EXCEPT
                                          !.pc = "requests",
                                          !.search_queries = search_queries,
                                          !.keywords = Prefix(search_queries, searchCall.count)]
                     /\ UNCHANGED picsum
                ELSE /\ searchCall' = [searchCall EXCEPT
                                          !.pc = "picsum",
                                          !.search_queries = search_queries]
                     /\ picsum' = PicsumCall(searchCall.count)
    /\ UNCHANGED <<forbidden_words, titleCall, articleCall, replaceCall, batch, rpcAdapter>>
    /\ UNCHANGED <<urlVars, runVars, siteVars>>

\* one iteration of `for keyword in keywords[:count]`: a request, its answer
SearchRequest ==
    /\ searchCall.pc = "requests"
    /\ Len(searchCall.outcomes) < Len(searchCall.keywords)
    /\ \E outcome \in SearchOutcomes :
         LET keyword == searchCall.keywords[Len(searchCall.outcomes) + 1]
         IN  searchCall' = [searchCall EXCEPT
                !.outcomes = Append(@, outcome),
                !.images = IF outcome = "200_image"
                           THEN Append(@, ProviderUrl(searchCall.search_engine, keyword))
                           ELSE @]
    /\ UNCHANGED <<forbidden_words, titleCall, articleCall, picsum, replaceCall, batch, rpcAdapter>>
    /\ UNCHANGED <<urlVars, runVars, siteVars>>

\* after the loop: `if not images` falls back to _search_picsum("", count),
\* otherwise the provider's images are returned
SearchProviderDone ==
    /\ searchCall.pc = "requests"
    /\ Len(searchCall.outcomes) = Len(searchCall.keywords)
    /\ IF searchCall.images = <<>>
       THEN /\ searchCall' = [searchCall EXCEPT !.pc = "picsum"]
            /\ picsum' = PicsumCall(searchCall.count)
       ELSE /\ searchCall' = [searchCall EXCEPT !.pc = "done", !.source = "provider"]
            /\ UNCHANGED picsum
    /\ UNCHANGED <<forbidden_words, titleCall, articleCall, replaceCall, batch, rpcAdapter>>
    /\ UNCHANGED <<urlVars, runVars, siteVars>>

\* return self._search_picsum(...)
SearchReturnPicsum ==
    /\ searchCall.pc = "picsum"
    /\ picsum.pc = "done"
    /\ searchCall' = [searchCall EXCEPT !.pc = "done", !.source = "picsum",
                                        !.images = picsum.images]
    /\ UNCHANGED <<forbidden_words, titleCall, articleCall, picsum, replaceCall, batch, rpcAdapter>>
    /\ UNCHANGED <<urlVars, runVars, siteVars>>

SearchNext ==
    \/ SearchImages
    \/ SearchRequest
    \/ SearchProviderDone
    \/ PicsumAppend
    \/ PicsumRedraw
    \/ PicsumReturn
    \/ SearchReturnPicsum

InitSearch ==
    /\ UrlIdle
    /\ runPc = "generator"
    /\ config = [enabled |-> FALSE]
    /\ factory = NotCalled
    /\ publisher = NoPublisher
    /\ restHits = {}
    /\ SiteInit
    /\ SearchInit

SpecSearch == InitSearch /\ [][SearchNext]_vars

\* the provider was not configured, or a request to it failed or found nothing
ProviderFailed ==
    \/ searchCall.search_engine \in KeyedEngines /\ searchCall.api_key = ""
    \/ \E j \in 1..Len(searchCall.outcomes) : searchCall.outcomes[j] # "200_image"
    \/ searchCall.search_engine \in KeyedEngines /\ searchCall.outcomes = <<>>

\* every URL of the result is a placeholder URL
FromPlaceholderSource ==
    /\ searchCall.source = "picsum"
    /\ \A j \in 1..Len(searchCall.images) : IsPicsumUrl(searchCall.images[j])

(* C22 as claimed: search_images never raises and returns at most count
   URLs, and whenever the chosen provider is unconfigured, answers an error
   or raises for a request, or returns zero results, the result comes from
   the placeholder source. *)
C22_AnyFailureFallsBack ==
    searchCall.pc = "done" =>
        /\ ~searchCall.raised
        /\ Len(searchCall.images) <= searchCall.count
        /\ ProviderFailed => FromPlaceholderSource

\* the images of the requests that found one, in the order of the keywords
FoundImages ==
    LET found == SelectSeq([j \in 1..Len(searchCall.outcomes) |-> j],
                           LAMBDA j : searchCall.outcomes[j] = "200_image")
    IN  [j \in 1..Len(found) |->
            ProviderUrl(searchCall.search_engine, searchCall.keywords[found[j]])]

(* C22, amended: search_images never raises and returns at most count URLs.
   The result comes from the placeholder source exactly when the engine is
   not a keyed provider, the provider is unconfigured, or no request found an
   image; when at least one request found an image the result is the images
   of the requests that found one, and a request that answered an error,
   raised or found nothing only makes the result shorter. *)
C22_FallsBackWhenNothingFound ==
    searchCall.pc = "done" =>
        /\ ~searchCall.raised
        /\ Len(searchCall.images) <= searchCall.count
        /\ FromPlaceholderSource <=>
              \/ searchCall.search_engine \notin KeyedEngines
              \/ searchCall.api_key = ""
              \/ \A j \in 1..Len(searchCall.outcomes) : searchCall.outcomes[j] # "200_image"
        /\ ~FromPlaceholderSource => searchCall.images = FoundImages

\* a configured provider, two requests: the first raises, the second finds an
\* image, and that image alone is returned
C22_Witness ==
    /\ searchCall.pc = "done"
    /\ searchCall.api_key # ""
    /\ searchCall.count = 2
    /\ searchCall.outcomes = <<"raises", "200_image">>
    /\ Len(searchCall.images) = 1
    /\ searchCall.source = "provider"

----------------------------------------------------------------------------
(* autopost.py: process_keywords, with save_article's file names, the      *)
(* publish step and the pause between articles                             *)

MaxBatchKeywords == 2

\* save_article: `if len(safe_title) > 50: safe_title = safe_title[:50]`
FILENAME_MAX == 50

\* the characters save_article replaces by '_'
ILLEGAL_FILENAME_CHARS == {"/", "\\", ":", "*", "?", "\"", "<", ">", "|"}

\* the titles generate_titles returns in a batch: clean titles, two of them
\* differing in a character that is illegal in file names
BatchTitles == {<<"a", "/", "b">>, <<"a", ":", "b">>}

\* the configured delay_between_posts, in seconds
Delays == {0, 1}

SaveModes == {"keyword", "date"}

\* the wordpress sections of a batch that publishes
BatchWpConfigs ==
    {[enabled |-> TRUE, complete |-> TRUE, api_method |-> "rest",
      category |-> ABSENT, status |-> st] : st \in {ABSENT, "publish"}}

\* safe_title: the title with the illegal characters replaced, cut to 50
SafeTitle(title) ==
    Prefix([j \in 1..Len(title) |->
               IF title[j] \in ILLEGAL_FILENAME_CHARS THEN "_" ELSE title[j]],
           FILENAME_MAX)

\* create_output_directory(keyword)
OutputDirectory(save_mode, keyword) == IF save_mode = "keyword" THEN keyword ELSE "date"

\* filepath = output_dir / f"{safe_title}_{timestamp}.txt". The timestamp has
\* the resolution of a second: two paths written in the same second are the
\* same file exactly when their directory and safe title are the same, and
\* paths written in different seconds always differ.
FilePath(save_mode, keyword, title) ==
    [dir |-> OutputDirectory(save_mode, keyword), title |-> SafeTitle(title)]

\* a slip: an empty title list ends the batch
after_titles_Break(titles) == IF titles = <<>> THEN "done" ELSE "article"

\* `if not titles: continue`: where process_keywords goes after generate_titles
after_titles(titles) == IF titles = <<>> THEN "keyword" ELSE "article"

\* publish_to_wordpress: the post id, None when publish_post gave none or raised
publish_to_wordpress(call) ==
    IF call.raised \/ call.result = PyNone THEN PyNone ELSE call.result

\* a slip: an article only succeeds when its post was created
article_result_PublishRequired(step, post_id) ==
    step.returned /\ (step.publish => post_id # PyNone)

\* the value generate_and_save_article returns once the file is written:
\* True, whatever publish_to_wordpress returned
article_result(step, post_id) == step.returned

\* the requests of a publish_post call in a batch: the lookups are answered,
\* the creation of the post is answered 201 or 500, or is not answered
BatchCallEnvs(tags) ==
    [lookup : {"ok"}, all : {"ok"}, rnd : {0}, tagKinds : [1..Len(tags) -> {"ok"}],
     create : {"201", "500", "exception"}, id : PostIds]

\* the publish_post call of an article of the batch, and what it does to the site
BatchPublish(args, env) ==
    LET call == publish_post(publisher, args, env, remoteCats, remoteTags)
    IN  /\ Canonical(call, env, remoteCats)
        /\ remoteTags' = call.siteTags
        /\ restHits' = IF publisher.kind = "rest"
                       THEN restHits \cup REST_endpoints(args) ELSE restHits
        /\ UNCHANGED <<remoteCats, lastCall>>

\* process_keywords(keywords) has been called
BatchInit ==
    /\ forbidden_words = <<>>
    /\ titleCall = NoGenCall
    /\ articleCall = NoGenCall
    /\ picsum = NoGenCall
    /\ replaceCall = NoGenCall
    /\ searchCall = NoGenCall
    /\ rpcAdapter = NoGenCall
    /\ runPc = "batch"
    /\ factory = NotCalled
    /\ restHits = {}
    /\ config \in BatchWpConfigs
    /\ \/ publisher = Constructed("rest", config)
       \/ publisher = NoPublisher /\ config.status = ABSENT
    /\ \E keywords \in SeqsUpTo(Keywords, MaxBatchKeywords), n \in 1..MaxTitles,
          delay \in Delays, save_mode \in SaveModes :
         /\ keywords # <<>>
         /\ batch = [pc |-> "keyword", keywords |-> keywords, title_per_keyword |-> n,
                     delay_between_posts |-> delay, save_mode |-> save_mode,
                     success_count |-> 0, total_articles |-> Len(keywords) * n,
                     article_index |-> 0, k |-> 1, titles |-> <<>>, i |-> 0,
                     thisSecond |-> {}, files |-> 0, saves |-> 0,
                     titlesReturned |-> 0, posts |-> <<>>, created |-> 0,
                     pauses |-> 0, pausedAfterLast |-> FALSE]

\* the head of `for keyword in keywords`: generate_titles(keyword, n) returns at
\* most n clean titles, none when it failed
BatchGenerateTitles ==
    /\ batch.pc = "keyword"
    /\ batch.k <= Len(batch.keywords)
    /\ \E titles \in SeqsUpTo(BatchTitles, batch.title_per_keyword) :
         batch' = [batch EXCEPT
                     !.pc = after_titles(titles),
                     !.titles = titles,
                     !.i = 0,
                     !.titlesReturned = @ + Len(titles),
                     !.k = IF after_titles(titles) = "keyword" THEN @ + 1 ELSE @]
    /\ UNCHANGED <<replaceCall, searchCall, rpcAdapter, urlVars, runVars, siteVars, genVars>>

\* the body of `for i, title in enumerate(titles, 1)` up to the pause:
\* generate_and_save_article(keyword, title, article_index, total_articles)
BatchArticle ==
    /\ batch.pc = "article"
    /\ batch.i < Len(batch.titles)
    /\ \E article_content \in {<<>>, <<"a">>}, saveOk \in BOOLEAN, tick \in BOOLEAN :
         LET keyword == batch.keywords[batch.k]
             title == batch.titles[batch.i + 1]
             step == generate_and_save_article(article_content, saveOk,
                                               publisher.kind # "none")
             args == PublishArgs(config, keyword)
             file == FilePath(batch.save_mode, keyword, title)
             \* the files of the second in which save_article takes its timestamp:
             \* with `tick` the clock has moved on since the last file was written
             sameSecond == IF tick THEN {} ELSE batch.thisSecond
         IN  /\ (article_content = <<>>) => saveOk
             /\ ~step.saved => ~tick
             /\ \E env \in BatchCallEnvs(args.tags) :
                  LET call == publish_post(publisher, args, env, remoteCats, remoteTags)
                      post_id == IF step.publish THEN publish_to_wordpress(call)
                                 ELSE PyNone
                  IN  /\ IF step.publish THEN BatchPublish(args, env)
                         ELSE /\ env.create = "201"
                              /\ UNCHANGED <<lastCall, remoteTags, restHits, remoteCats>>
                      /\ batch' = [batch EXCEPT
                            !.pc = "pause",
                            !.i = @ + 1,
                            !.article_index = @ + 1,
                            !.thisSecond = IF step.saved THEN sameSecond \cup {file} ELSE @,
                            !.files = IF step.saved /\ file \notin sameSecond
                                      THEN @ + 1 ELSE @,
                            !.saves = IF step.saved THEN @ + 1 ELSE @,
                            !.posts = IF step.publish THEN Append(@, call.status) ELSE @,
                            !.created = IF post_id # PyNone THEN @ + 1 ELSE @,
                            !.success_count =
                                IF article_result(step, post_id) THEN @ + 1 ELSE @,
                            !.pausedAfterLast = FALSE]
    /\ UNCHANGED <<replaceCall, searchCall, rpcAdapter, urlVars, genVars>>
    /\ UNCHANGED <<runPc, config, factory, publisher>>

\* `if article_index < total_articles: time.sleep(delay)`, then the next title
\* or, after the last title of the keyword, the next keyword
BatchPause ==
    /\ batch.pc = "pause"
    /\ LET sleeps == batch.article_index < batch.total_articles
           more == batch.i < Len(batch.titles)
       IN  batch' = [batch EXCEPT
              !.pc = IF more THEN "article" ELSE "keyword",
              !.k = IF more THEN @ ELSE @ + 1,
              !.thisSecond = IF sleeps /\ batch.delay_between_posts >= 1 THEN {} ELSE @,
              !.pauses = IF sleeps THEN @ + 1 ELSE @,
              !.pausedAfterLast = sleeps]
    /\ UNCHANGED <<replaceCall, searchCall, rpcAdapter, urlVars, runVars, siteVars, genVars>>

\* return success_count
BatchReturn ==
    /\ batch.pc = "keyword"
    /\ batch.k > Len(batch.keywords)
    /\ batch' = [batch EXCEPT !.pc = "done"]
    /\ UNCHANGED <<replaceCall, searchCall, rpcAdapter, urlVars, runVars, siteVars, genVars>>

BatchNext == BatchGenerateTitles \/ BatchArticle \/ BatchPause \/ BatchReturn

InitBatch == UrlIdle /\ SiteInit /\ BatchInit

SpecBatch == InitBatch /\ [][BatchNext]_vars

(* C23: process_keywords handles every keyword of the list and every title
   returned for a keyword: a failure of title generation, article generation,
   local save or publish never stops the loop, and process_keywords is only
   left by its return. *)
C23_BatchHandlesEveryKeywordAndTitle ==
    /\ batch.pc \in {"keyword", "article", "pause", "done"}
    /\ batch.article_index <= batch.titlesReturned
    /\ batch.pc = "keyword" => batch.article_index = batch.titlesReturned
    /\ batch.pc = "done" =>
          /\ batch.k = Len(batch.keywords) + 1
          /\ batch.article_index = batch.titlesReturned

\* a batch that returned after a keyword without titles, an article that was
\* not saved and a post that was not created, with an article after each
C23_Witness ==
    /\ batch.pc = "done"
    /\ Len(batch.keywords) = 2
    /\ batch.title_per_keyword = 2
    /\ batch.titlesReturned = 2
    /\ batch.article_index = 2
    /\ batch.saves = 1
    /\ batch.success_count = 1
    /\ Len(batch.posts) = 1
    /\ batch.created = 0

(* C24: when an article was saved locally and publish_post then returns None
   or fails, the local file is kept, the article counts as a success in
   success_count, and the batch goes on with the next title. *)
C24_PublishFailureKeepsFileAndSuccess ==
    [][/\ (/\ batch.pc = "article"
           /\ batch'.saves = batch.saves + 1
           /\ Len(batch'.posts) = Len(batch.posts) + 1
           /\ batch'.created = batch.created)
          => /\ batch'.success_count = batch.success_count + 1
             /\ batch'.files >= batch.files
             /\ FilePath(batch.save_mode, batch.keywords[batch.k],
                         batch.titles[batch.i + 1]) \in batch'.thisSecond
             /\ batch'.pc = "pause"
       /\ (batch.pc = "pause" /\ batch.i < Len(batch.titles))
          => (batch'.pc = "article" /\ batch'.i = batch.i /\ batch'.files = batch.files)
      ]_vars

\* the first article of a keyword was saved, its post was not created, and the
\* batch has gone on to the second title
C24_Witness ==
    /\ batch.pc = "article"
    /\ publisher.kind = "rest"
    /\ batch.i = 1
    /\ batch.article_index = 1
    /\ batch.saves = 1
    /\ batch.files = 1
    /\ Len(batch.posts) = 1
    /\ batch.created = 0
    /\ batch.success_count = 1

(* C25: a batch with one keyword, title_per_keyword = 2, two clean titles and
   two articles that were generated and saved ends with exactly 2 distinct
   local files and, with a healthy adapter and the default status, with
   exactly 2 create-post calls, each with status 'draft'. *)
C25_TwoFilesAndTwoDrafts ==
    (/\ batch.pc = "done"
     /\ Len(batch.keywords) = 1
     /\ batch.title_per_keyword = 2
     /\ batch.titlesReturned = 2
     /\ batch.saves = 2)
        => /\ batch.files = 2
           /\ (/\ publisher.kind # "none"
               /\ config.status = ABSENT
               /\ batch.created = Len(batch.posts))
              => batch.posts = <<"draft", "draft">>

(* C29: process_keywords pauses after every processed article except the last
   one of the batch: no pause follows the final article, also when a keyword
   yields fewer titles than title_per_keyword or is skipped. *)
C29_NoPauseAfterFinalArticle ==
    batch.pc = "done" =>
        /\ ~batch.pausedAfterLast
        /\ batch.pauses = IF batch.article_index = 0 THEN 0 ELSE batch.article_index - 1

----------------------------------------------------------------------------
(* C26: create_publisher in 'auto' mode constructs and tests the REST adapter
   before anything else; the XML-RPC adapter is only constructed after the
   REST adapter failed, and when the REST test_connection returns true the
   REST adapter is returned and the XML-RPC adapter is neither constructed nor
   contacted. *)
C26_AutoTriesRestFirst ==
    (factory.called /\ config.enabled /\ config.complete /\ config.api_method = "auto")
        => /\ factory.rest # "not_run"
           /\ factory.rpc # "not_run"
                 => factory.rest \in {"ctor_raises", "test_false", "test_raises"}
           /\ factory.rest = "test_true"
                 => /\ factory.result = "rest"
                    /\ factory.rpc = "not_run"
                    /\ factory.rpcCall = "not_run"

C26_Witness ==
    /\ factory.called
    /\ config.api_method = "auto"
    /\ factory.rest = "test_true"
    /\ factory.restResp = "200"
    /\ factory.result = "rest"
    /\ publisher.kind = "rest"

----------------------------------------------------------------------------
(* The retry loops of generate_titles and generate_article side by side:   *)
(* each request to the LLM is answered or fails                            *)

\* generate_titles(keyword, n) and generate_article(title, ...) have been
\* called; the article call has collected its images and is at its retry loop
LlmInit ==
    /\ forbidden_words \in ForbiddenLists
    /\ picsum = NoGenCall
    /\ BatchIdle
    /\ \E n \in 0..MaxTitles :
         titleCall = [pc |-> "loop", n |-> n, attempt |-> 0, cleaned_titles |-> <<>>,
                      earlier |-> {}, exhausted |-> FALSE, error |-> FALSE,
                      result |-> <<>>]
    /\ articleCall = [pc |-> "loop", fetch_real_images |-> FALSE, image_mode |-> "search",
                      image_count |-> 0, search_count |-> 0, generate_count |-> 0,
                      attempt |-> 0, requests |-> 0, rejected |-> 0, error |-> FALSE,
                      image_urls |-> <<>>, content |-> <<>>, article |-> <<>>,
                      saved |-> 0, returned |-> FALSE, success_count |-> 0]

LlmNext ==
    \/ GenerateTitlesAttempt
    \/ GenerateTitlesRaises
    \/ GenerateArticleAttempt
    \/ GenerateArticleRaises

InitLlm ==
    /\ UrlIdle
    /\ runPc = "generator"
    /\ config = [enabled |-> FALSE]
    /\ factory = NotCalled
    /\ publisher = NoPublisher
    /\ restHits = {}
    /\ SiteInit
    /\ LlmInit

SpecLlm == InitLlm /\ [][LlmNext]_vars

(* C27: in generate_titles and in generate_article an error of the LLM call
   on any attempt ends the call at once with the empty result ([] resp. ''),
   and no further LLM request is made for that call. *)
C27_LlmErrorEndsTheCall ==
    /\ [](titleCall.error => (titleCall.pc = "done" /\ titleCall.result = <<>>))
    /\ [](articleCall.error => (articleCall.pc = "generated" /\ articleCall.article = <<>>))
    /\ [][/\ titleCall.error => titleCall'.attempt = titleCall.attempt
          /\ articleCall.error => articleCall'.requests = articleCall.requests]_vars

\* both calls ended by an error of their second request
C27_Witness ==
    /\ titleCall.error
    /\ titleCall.attempt = 2
    /\ titleCall.pc = "done"
    /\ articleCall.error
    /\ articleCall.requests = 2
    /\ articleCall.rejected = 1
    /\ articleCall.pc = "generated"

----------------------------------------------------------------------------
\* generate_article has returned a non-empty article
ArticleReturned == articleCall.pc \in {"generated", "done"} /\ articleCall.article # <<>>

(* C28 as claimed: every non-empty article returned by generate_article,
   including the image URLs substituted into its placeholders, contains no
   forbidden word (case-insensitive substring match). *)
C28_ReturnedArticleHasNoForbiddenWord ==
    ArticleReturned => ~MatchesForbidden(articleCall.article)

(* C28, amended: the text the LLM answered for a returned non-empty article
   contains no forbidden word (case-insensitive substring match), and the
   returned article is that text with image URLs substituted into its
   placeholders; the URLs are substituted after the check and are not checked. *)
C28_AnswerHasNoForbiddenWord ==
    ArticleReturned =>
        /\ ~MatchesForbidden(articleCall.content)
        /\ \/ articleCall.article = articleCall.content
           \/ /\ articleCall.fetch_real_images
              /\ \E url \in {URL_PLAIN, URL_WITH_B} :
                   articleCall.article =
                      replace_image_placeholders(articleCall.content, <<url>>)

\* a returned article whose answer was clean and whose substituted URL holds a
\* forbidden word
C28_Witness ==
    /\ ArticleReturned
    /\ ~MatchesForbidden(articleCall.content)
    /\ MatchesForbidden(articleCall.article)
    /\ articleCall.article = replace_image_placeholders(articleCall.content, <<URL_WITH_B>>)

----------------------------------------------------------------------------
(* WordPressXMLRPCPublisher.__init__ on the configured URL, next to the     *)
(* REST adapter's constructor: in 'auto' mode create_publisher hands the    *)
(* same wordpress.url to both.                                              *)

\* WordPressXMLRPCPublisher.__init__: the URL handed to Client(url, ...);
\* only a missing scheme is added, no path is appended
RPC_url(url) ==
    IF ~(StartsWith(url, SCHEME_HTTP) \/ StartsWith(url, SCHEME_HTTPS))
    THEN SCHEME_HTTPS \o url
    ELSE url

\* WordPressXMLRPCPublisher(url, username, password)
RPCPublisherInit ==
    /\ rpcAdapter = NoGenCall
    /\ rpcAdapter' = [pc |-> "built", url |-> RPC_url(urlIn)]
    /\ UNCHANGED <<replaceCall, searchCall, batch>>
    /\ UNCHANGED <<urlVars, runVars, siteVars, genVars>>

RpcUrlNext ==
    \/ RESTPublisherInit
    \/ RPCPublisherInit

SpecRpcUrl == InitUrl /\ [][RpcUrlNext]_vars

(* C30: for every configured URL given without the '/xmlrpc.php' suffix the
   XML-RPC adapter sends its calls to {origin}/xmlrpc.php, and the REST
   adapter built from the same URL has the origin as its base_url. *)
C30_RpcEndpointIsOriginXmlrpc ==
    (rpcAdapter.pc = "built" /\ ~EndsWith(RStrip(urlIn, "/"), XMLRPC_SUFFIX)) =>
        /\ rpcAdapter.url = urlOrigin \o XMLRPC_SUFFIX
        /\ urlPc = "built" => base_url = urlOrigin

====
